---- MODULE Spec2Model ----
(***************************************************************************)
(* Verification model of the ledger script machine:                        *)
(*   core/funding.go   the Funding value and its algebra                   *)
(*   vm/machine.go     the Machine: preparation steps and the interpreter  *)
(*                                                                         *)
(* Two specifications:                                                     *)
(*   SpecFunding   a harness that applies the Funding methods to fundings  *)
(*                 stored Go-style (slice headers over shared arrays)      *)
(*   Spec          one Machine driven by a caller and its two resolver     *)
(*                 goroutines                                              *)
(***************************************************************************)
EXTENDS Integers, Sequences, FiniteSets, TLC

\* ------------------------------------------------------------------------
\* Bounds of the model
\* ------------------------------------------------------------------------

\* uint64 is scaled down to WordBits bits: arithmetic wraps modulo 2^WordBits
WordBits == 4
\* longest part list of an input funding of the harness
MaxParts == 2
\* longest part list of the operands of the Concat scenario
MaxConcatParts == 1

Modulus == 2 ^ WordBits
MaxUint == Modulus - 1
\* largest value of the signed type of the same width (int64)
MaxInt == (Modulus \div 2) - 1

Wrap(x) == x % Modulus

\* int64(x) of an unsigned x: two's complement reinterpretation
ToInt64(x) == IF x > MaxInt THEN x - Modulus ELSE x

Min(a, b) == IF a < b THEN a ELSE b

\* ------------------------------------------------------------------------
\* core/funding.go : values
\* ------------------------------------------------------------------------

WORLD == "world"

FundingPart(account, amount) == [Account |-> account, Amount |-> amount]

Funding(asset, parts, infinite) ==
    [Asset |-> asset, Parts |-> parts, Infinite |-> infinite]

\* Funding{} : the zero value returned next to an error
ZeroFunding == Funding("", <<>>, FALSE)

RECURSIVE SumAmounts(_)
SumAmounts(parts) ==
    IF parts = <<>> THEN 0
    ELSE Wrap(parts[1].Amount + SumAmounts(Tail(parts)))

\* Funding.Total
Total(f) ==
    IF f.Infinite THEN [err |-> TRUE, total |-> 0]
    ELSE [err |-> FALSE, total |-> SumAmounts(f.Parts)]

\* The first loop of Take and TakeMax: walk the parts from position i while
\* something remains to withdraw.
RECURSIVE TakeWalk(_, _, _, _, _)
TakeWalk(parts, i, remaining_to_withdraw, result, remainder) ==
    IF remaining_to_withdraw > 0 /\ i <= Len(parts)
    THEN LET amt    == parts[i].Amount
             excess == amt > remaining_to_withdraw
             amt_to_withdraw == IF excess THEN remaining_to_withdraw ELSE amt
             remainder2 ==
                 IF excess
                 THEN Append(remainder,
                             FundingPart(parts[i].Account, amt - remaining_to_withdraw))
                 ELSE remainder
         IN  TakeWalk(parts, i + 1, remaining_to_withdraw - amt_to_withdraw,
                      Append(result, FundingPart(parts[i].Account, amt_to_withdraw)),
                      remainder2)
    ELSE [i |-> i, remaining_to_withdraw |-> remaining_to_withdraw,
          result |-> result, remainder |-> remainder]

\* The second loop: the parts from position i on are copied to the remainder.
TakeTail(parts, i) == SubSeq(parts, i, Len(parts))

TakeMissingBug(f, amount) ==
    LET w == TakeWalk(f.Parts, 1, amount, <<>>, <<>>)
    IN  IF w.remaining_to_withdraw # 0 /\ ~f.Infinite
        THEN [err |-> TRUE, taken |-> ZeroFunding, remainder |-> ZeroFunding]
        ELSE [err |-> FALSE,
              taken |-> Funding(f.Asset,
                          IF w.remaining_to_withdraw # 0
                          THEN Append(w.result, FundingPart(WORLD, w.remaining_to_withdraw))
                          ELSE w.result, FALSE),
              remainder |-> Funding(f.Asset, TakeTail(f.Parts, w.i), f.Infinite)]

\* Take that leaves the unmet amount out of the funding it returns
TakeDropsUnmetBug(f, amount) ==
    LET w == TakeWalk(f.Parts, 1, amount, <<>>, <<>>)
    IN  IF w.remaining_to_withdraw # 0 /\ ~f.Infinite
        THEN [err |-> TRUE, taken |-> ZeroFunding, remainder |-> ZeroFunding]
        ELSE [err |-> FALSE,
              taken |-> Funding(f.Asset, w.result, FALSE),
              remainder |-> Funding(f.Asset, w.remainder \o TakeTail(f.Parts, w.i),
                                    f.Infinite)]

\* Funding.Take
Take(f, amount) ==
    LET w == TakeWalk(f.Parts, 1, amount, <<>>, <<>>)
    IN  IF w.remaining_to_withdraw # 0 /\ ~f.Infinite
        THEN [err |-> TRUE, taken |-> ZeroFunding, remainder |-> ZeroFunding]
        ELSE [err |-> FALSE,
              taken |-> Funding(f.Asset,
                          IF w.remaining_to_withdraw # 0
                          THEN Append(w.result, FundingPart(WORLD, w.remaining_to_withdraw))
                          ELSE w.result, FALSE),
              remainder |-> Funding(f.Asset, w.remainder \o TakeTail(f.Parts, w.i),
                                    f.Infinite)]

\* Funding.TakeMax
TakeMax(f, amount) ==
    LET w == TakeWalk(f.Parts, 1, amount, <<>>, <<>>)
    IN  [err |-> FALSE,
         taken |-> Funding(f.Asset,
                     IF w.remaining_to_withdraw # 0 /\ f.Infinite
                     THEN Append(w.result, FundingPart(WORLD, w.remaining_to_withdraw))
                     ELSE w.result, FALSE),
         remainder |-> Funding(f.Asset, w.remainder \o TakeTail(f.Parts, w.i),
                               f.Infinite)]

ReverseKeepsOrderBug(f) ==
    IF f.Infinite THEN [err |-> TRUE, funding |-> ZeroFunding]
    ELSE [err |-> FALSE, funding |-> Funding(f.Asset, f.Parts, FALSE)]

\* Funding.Reverse
Reverse(f) ==
    IF f.Infinite THEN [err |-> TRUE, funding |-> ZeroFunding]
    ELSE LET n == Len(f.Parts)
         IN  [err |-> FALSE,
              funding |-> Funding(f.Asset, [i \in 1..n |-> f.Parts[n + 1 - i]], FALSE)]

\* Funding.Equals (the Infinite flag is not compared)
Equals(lhs, rhs) ==
    /\ lhs.Asset = rhs.Asset
    /\ Len(lhs.Parts) = Len(rhs.Parts)
    /\ \A i \in 1..Len(lhs.Parts) : lhs.Parts[i] = rhs.Parts[i]

\* ------------------------------------------------------------------------
\* Go slices: a funding's Parts is a slice header (array, len) over a backing
\* array that other headers may share.  A heap is a sequence of arrays, the
\* length of an array is its capacity, array 0 is the nil slice.
\* ------------------------------------------------------------------------

NoPart == FundingPart("", 0)

FundingRef(asset, arr, len, infinite) ==
    [Asset |-> asset, arr |-> arr, len |-> len, Infinite |-> infinite]

SliceCap(h, arr) == IF arr = 0 THEN 0 ELSE Len(h[arr])

SliceParts(h, arr, len) == IF arr = 0 THEN <<>> ELSE SubSeq(h[arr], 1, len)

\* the funding value a header denotes in heap h
View(h, r) == Funding(r.Asset, SliceParts(h, r.arr, r.len), r.Infinite)

\* capacity of the array the runtime allocates when an append outgrows the
\* old one (growslice, small slices): the needed length if it is more than
\* twice the old capacity, else twice the old capacity
GrowCap(oldcap, newlen) == IF newlen > 2 * oldcap THEN newlen ELSE 2 * oldcap

Padded(parts, cap) ==
    [i \in 1..cap |-> IF i <= Len(parts) THEN parts[i] ELSE NoPart]

\* append(slice, elems...) : in place when the capacity allows, else into a
\* new array holding a copy
AppendSlice(h, arr, len, elems) ==
    LET k == Len(elems)
        cap == SliceCap(h, arr)
    IN  IF k = 0 THEN [heap |-> h, arr |-> arr, len |-> len]
        ELSE IF len + k <= cap
        THEN [heap |-> [h EXCEPT ![arr] =
                          [i \in 1..cap |->
                              IF i > len /\ i <= len + k THEN elems[i - len] ELSE @[i]]],
              arr |-> arr, len |-> len + k]
        ELSE [heap |-> Append(h, Padded(SliceParts(h, arr, len) \o elems,
                                        GrowCap(cap, len + k))),
              arr |-> Len(h) + 1, len |-> len + k]

\* a new slice literal []FundingPart{...} (nil when empty)
NewSlice(h, parts) ==
    IF parts = <<>> THEN [heap |-> h, arr |-> 0, len |-> 0]
    ELSE [heap |-> Append(h, parts), arr |-> Len(h) + 1, len |-> Len(parts)]

\* a slice built by appending the parts one at a time to a nil slice, as the
\* loops of Take, TakeMax and Reverse do
RECURSIVE BuildSlice(_, _, _, _)
BuildSlice(h, arr, len, parts) ==
    IF parts = <<>> THEN [heap |-> h, arr |-> arr, len |-> len]
    ELSE LET a == AppendSlice(h, arr, len, <<Head(parts)>>)
         IN  BuildSlice(a.heap, a.arr, a.len, Tail(parts))

\* Concat that drops other's parts whenever either funding is infinite
ConcatRefDropsBug(h, f, other) ==
    IF f.Asset # other.Asset
    THEN [err |-> TRUE, heap |-> h, res |-> FundingRef("", 0, 0, FALSE)]
    ELSE IF f.Infinite \/ other.Infinite
         THEN [err |-> FALSE, heap |-> h,
               res |-> FundingRef(f.Asset, f.arr, f.len, TRUE)]
         ELSE LET a == AppendSlice(h, f.arr, f.len,
                                   SliceParts(h, other.arr, other.len))
              IN  [err |-> FALSE, heap |-> a.heap,
                   res |-> FundingRef(f.Asset, a.arr, a.len, FALSE)]

\* Funding.Concat on headers f and other in heap h: the returned header and
\* the heap after the call (res.Parts starts as f.Parts, sharing f's array)
ConcatRef(h, f, other) ==
    IF f.Asset # other.Asset
    THEN [err |-> TRUE, heap |-> h, res |-> FundingRef("", 0, 0, FALSE)]
    ELSE LET infinite == f.Infinite \/ other.Infinite
         IN  IF f.Infinite
             THEN [err |-> FALSE, heap |-> h,
                   res |-> FundingRef(f.Asset, f.arr, f.len, infinite)]
             ELSE IF f.len > 0 /\ other.len > 0
                     /\ h[f.arr][f.len].Account = h[other.arr][1].Account
             THEN LET h1 == [h EXCEPT ![f.arr][f.len].Amount =
                                   Wrap(@ + h[other.arr][1].Amount)]
                      a  == AppendSlice(h1, f.arr, f.len,
                                        Tail(SliceParts(h1, other.arr, other.len)))
                  IN  [err |-> FALSE, heap |-> a.heap,
                       res |-> FundingRef(f.Asset, a.arr, a.len, infinite)]
             ELSE LET a == AppendSlice(h, f.arr, f.len,
                                       SliceParts(h, other.arr, other.len))
                  IN  [err |-> FALSE, heap |-> a.heap,
                       res |-> FundingRef(f.Asset, a.arr, a.len, infinite)]

\* Funding.Concat as a function of two funding values that share no storage:
\* the value of the returned funding
Concat(f, other) ==
    LET h0 == <<Padded(f.Parts, Len(f.Parts) + 1), Padded(other.Parts, Len(other.Parts) + 1)>>
        c  == ConcatRef(h0, FundingRef(f.Asset, 1, Len(f.Parts), f.Infinite),
                        FundingRef(other.Asset, 2, Len(other.Parts), other.Infinite))
    IN  [err |-> c.err, funding |-> View(c.heap, c.res)]

\* ------------------------------------------------------------------------
\* The funding harness (SpecFunding): input fundings f, g, h held as slice
\* headers in a heap, and the Funding methods applied to them.
\* ------------------------------------------------------------------------

VARIABLES
    scen,       \* which methods this run applies
    heap,       \* the backing arrays
    refs,       \* name -> header of the funding of that name
    amount,     \* the amount argument of Take / TakeMax
    errs,       \* names of the calls that returned an error
    made        \* name -> the funding value a call returned, as it was on return

algVars == <<scen, heap, refs, amount, errs, made>>

\* The machine of vm/machine.go; the funding harness leaves it alone.
VARIABLES
    Program,            \* m.Program (UnresolvedResources is Program.Resources)
    P,                  \* m.P, index of the next instruction byte (from 0)
    Vars,               \* m.Vars
    Resources,          \* m.Resources
    resolve_called,     \* m.resolve_called
    Balances,           \* m.Balances : account -> asset -> amount
    BalancesNil,        \* m.Balances == nil
    set_balance_called, \* m.set_balance_called
    Stack,              \* m.Stack, top last
    Postings,           \* m.Postings
    TxMeta,             \* m.TxMeta
    print_closed,       \* m.print_chan has been closed
    Printed,            \* the values the printer received
    rr,                 \* the goroutine of ResolveResources
    md_stream,          \* the messages received from the metadata channel
    md_answers,         \* resource index -> the value answered to its request
    rb,                 \* the goroutine of ResolveBalances
    bal_stream,         \* the messages received from the balance channel
    bal_answers,        \* the requests answered, in order: the addresses asked
                        \* for, the account and asset named, the balance given
    exec,               \* the call of Execute: position, ticks done, calls made,
                        \* and, as the last run started, whether the balance
                        \* stream had ended and what the balances were
    ret,                \* what the caller's last call returned
    effects,            \* how often each preparation step took effect
    crashed             \* a panic ended the process

vmVars == <<Program, P, Vars, Resources, resolve_called, Balances, BalancesNil,
            set_balance_called, Stack, Postings, TxMeta, print_closed, Printed,
            rr, md_stream, md_answers, rb, bal_stream, bal_answers, exec, ret,
            effects, crashed>>

vars == <<algVars, vmVars>>

Accounts == {"a", "b"}
PartAmounts == 0..2
ConcatAmounts == {1, 2}
TakeAmounts == 0..(2 * MaxParts + 1)
\* the scenarios whose operands are concatenated: "concat" draws three finite
\* fundings of one asset, "concatany" two fundings of any asset, finite or not
ConcatScens == {"concat", "concatany"}
Assets == {"COIN", "USD"}

PartsUpTo(n, amounts) ==
    UNION {[1..k -> [Account : Accounts, Amount : amounts]] : k \in 0..n}

\* the funding called name, as the heap shows it now
Val(name) == View(heap, refs[name])

Has(name) == name \in DOMAIN refs

InitFunding ==
    /\ scen \in {"take", "takemax", "reverse", "concat", "concatany"}
    /\ \E fp \in PartsUpTo(IF scen \in ConcatScens THEN MaxConcatParts ELSE MaxParts,
                           IF scen \in ConcatScens THEN ConcatAmounts ELSE PartAmounts),
          gp \in (IF scen \in ConcatScens THEN PartsUpTo(MaxConcatParts, ConcatAmounts) ELSE {<<>>}),
          hp \in (IF scen = "concat" THEN PartsUpTo(MaxConcatParts, ConcatAmounts) ELSE {<<>>}),
          inf \in (IF scen = "concat" THEN {FALSE} ELSE BOOLEAN),
          infg \in (IF scen = "concatany" THEN BOOLEAN ELSE {FALSE}),
          ag \in (IF scen = "concatany" THEN Assets ELSE {"COIN"}) :
          LET sf == NewSlice(<<>>, fp)
              sg == NewSlice(sf.heap, gp)
              sh == NewSlice(sg.heap, hp)
          IN  /\ heap = sh.heap
              /\ refs = ("f" :> FundingRef("COIN", sf.arr, sf.len, inf))
                        @@ ("g" :> FundingRef(ag, sg.arr, sg.len, infg))
                        @@ ("h" :> FundingRef("COIN", sh.arr, sh.len, FALSE))
              /\ made = ("f" :> Funding("COIN", fp, inf))
                        @@ ("g" :> Funding(ag, gp, infg))
                        @@ ("h" :> Funding("COIN", hp, FALSE))
    /\ amount \in (IF scen \in {"take", "takemax"} THEN TakeAmounts ELSE {0})
    /\ errs = {}

\* store the funding value v under name, its parts built by single appends
StoreBuilt(name, v) ==
    LET s == BuildSlice(heap, 0, 0, v.Parts)
    IN  /\ heap' = s.heap
        /\ refs' = (name :> FundingRef(v.Asset, s.arr, s.len, v.Infinite)) @@ refs
        /\ made' = (name :> v) @@ made

\* taken, remainder, err := f.Take(amount)
AlgTake ==
    /\ scen = "take" /\ ~Has("taken")
    /\ LET r == Take(Val("f"), amount)
           s1 == BuildSlice(heap, 0, 0, r.taken.Parts)
           s2 == BuildSlice(s1.heap, 0, 0, r.remainder.Parts)
       IN  /\ heap' = s2.heap
           /\ refs' = ("taken" :> FundingRef(r.taken.Asset, s1.arr, s1.len, r.taken.Infinite))
                      @@ ("remainder" :> FundingRef(r.remainder.Asset, s2.arr, s2.len,
                                                    r.remainder.Infinite))
                      @@ refs
           /\ made' = ("taken" :> r.taken) @@ ("remainder" :> r.remainder) @@ made
           /\ errs' = IF r.err THEN errs \cup {"taken"} ELSE errs
    /\ UNCHANGED <<scen, amount, vmVars>>

\* taken, remainder := f.TakeMax(amount)
AlgTakeMax ==
    /\ scen = "takemax" /\ ~Has("taken")
    /\ LET r == TakeMax(Val("f"), amount)
           s1 == BuildSlice(heap, 0, 0, r.taken.Parts)
           s2 == BuildSlice(s1.heap, 0, 0, r.remainder.Parts)
       IN  /\ heap' = s2.heap
           /\ refs' = ("taken" :> FundingRef(r.taken.Asset, s1.arr, s1.len, r.taken.Infinite))
                      @@ ("remainder" :> FundingRef(r.remainder.Asset, s2.arr, s2.len,
                                                    r.remainder.Infinite))
                      @@ refs
           /\ made' = ("taken" :> r.taken) @@ ("remainder" :> r.remainder) @@ made
           /\ errs' = errs
    /\ UNCHANGED <<scen, amount, vmVars>>

\* dst, err := src.Reverse()
AlgReverse(dst, src) ==
    /\ scen = "reverse" /\ Has(src) /\ ~Has(dst) /\ src \notin errs
    /\ LET r == Reverse(Val(src))
       IN  /\ StoreBuilt(dst, r.funding)
           /\ errs' = IF r.err THEN errs \cup {dst} ELSE errs
    /\ UNCHANGED <<scen, amount, vmVars>>

\* dst, err := a.Concat(b)
AlgConcat(dst, a, b) ==
    /\ scen \in ConcatScens /\ Has(a) /\ Has(b) /\ ~Has(dst)
    /\ a \notin errs /\ b \notin errs
    /\ LET c == ConcatRef(heap, refs[a], refs[b])
       IN  /\ heap' = c.heap
           /\ refs' = (dst :> c.res) @@ refs
           /\ made' = (dst :> View(c.heap, c.res)) @@ made
           /\ errs' = IF c.err THEN errs \cup {dst} ELSE errs
    /\ UNCHANGED <<scen, amount, vmVars>>

AlgReverseOnce == AlgReverse("rev", "f")
AlgReverseTwice == AlgReverse("revrev", "rev")
AlgConcatFG == AlgConcat("fg", "f", "g")
AlgConcatGH == AlgConcat("gh", "g", "h")
AlgConcatFG_H == AlgConcat("fg_h", "fg", "h")
AlgConcatF_GH == AlgConcat("f_gh", "f", "gh")

NextFunding ==
    \/ AlgTake
    \/ AlgTakeMax
    \/ AlgReverseOnce
    \/ AlgReverseTwice
    \/ AlgConcatFG
    \/ AlgConcatGH
    \/ AlgConcatFG_H
    \/ AlgConcatF_GH

\* ------------------------------------------------------------------------
\* Claims on the funding algebra (checked under SpecFunding)
\* ------------------------------------------------------------------------

TotalOf(name) == Total(Val(name)).total

\* tp followed by rp is fp, part for part, except that at most one part of fp
\* appears as two consecutive pieces of the same account whose amounts add up
IsSplitPartition(fp, tp, rp) ==
    \/ tp \o rp = fp
    \/ \E k \in 1..Len(fp) :
          /\ Len(tp) = k
          /\ Len(rp) = Len(fp) - k + 1
          /\ SubSeq(tp, 1, k - 1) = SubSeq(fp, 1, k - 1)
          /\ Tail(rp) = SubSeq(fp, k + 1, Len(fp))
          /\ tp[k].Account = fp[k].Account
          /\ rp[1].Account = fp[k].Account
          /\ tp[k].Amount + rp[1].Amount = fp[k].Amount

\* C1: for a finite funding f and an amount m <= Total(f), Take(f, m) succeeds
\* with Total(taken) = m and Total(remainder) = Total(f) - m, and taken.parts
\* followed by remainder.parts is f.parts in order with at most one part split
\* in two.
C1_TakePartitions ==
    (scen = "take" /\ Has("taken") /\ ~Val("f").Infinite /\ amount <= TotalOf("f"))
    => /\ "taken" \notin errs
       /\ TotalOf("taken") = amount
       /\ TotalOf("remainder") = TotalOf("f") - amount
       /\ Val("taken").Asset = Val("f").Asset
       /\ Val("remainder").Asset = Val("f").Asset
       /\ IsSplitPartition(Val("f").Parts, Val("taken").Parts, Val("remainder").Parts)

\* a Take that split a part of a finite funding
C1_Witness ==
    /\ scen = "take" /\ Has("taken") /\ ~Val("f").Infinite
    /\ amount <= TotalOf("f")
    /\ Len(Val("f").Parts) = MaxParts
    /\ Len(Val("taken").Parts) + Len(Val("remainder").Parts) = Len(Val("f").Parts) + 1

\* C2: for a finite funding f and any amount m, TakeMax(f, m) returns exactly
\* the pair (taken, remainder) that Take(f, min(m, Total(f))) returns.
C2_TakeMaxIsTakeOfMin ==
    (scen = "takemax" /\ Has("taken") /\ ~Val("f").Infinite)
    => LET t == Take(Val("f"), Min(amount, TotalOf("f")))
       IN  /\ ~t.err
           /\ made["taken"] = t.taken
           /\ made["remainder"] = t.remainder

\* C3: for finite same-asset fundings, Total(Concat(f, g)) = Total(f) + Total(g)
\* and Concat(Concat(f, g), h) equals Concat(f, Concat(g, h)); each side is
\* the funding the call returned, f, g and h are the operands as constructed.
C3_ConcatTotalAndAssociative ==
    scen = "concat"
    => /\ Has("fg") => Total(made["fg"]).total
                          = Total(made["f"]).total + Total(made["g"]).total
       /\ (Has("fg_h") /\ Has("f_gh"))
              => /\ made["fg_h"].Asset = made["f_gh"].Asset
                 /\ made["fg_h"].Parts = made["f_gh"].Parts

\* C4: for a finite funding f, Reverse(f) succeeds and returns the parts of f
\* in exactly reversed order with the same asset, and Reverse(Reverse(f)) is f.
C4_ReverseInvolution ==
    (scen = "reverse" /\ ~Val("f").Infinite)
    => /\ Has("rev") =>
             /\ "rev" \notin errs
             /\ Val("rev").Asset = Val("f").Asset
             /\ ~Val("rev").Infinite
             /\ Len(Val("rev").Parts) = Len(Val("f").Parts)
             /\ \A i \in 1..Len(Val("f").Parts) :
                    Val("rev").Parts[i] = Val("f").Parts[Len(Val("f").Parts) + 1 - i]
       /\ Has("revrev") =>
             /\ "revrev" \notin errs
             /\ Val("revrev") = Val("f")
             /\ Equals(Val("revrev"), Val("f"))

\* a funding whose ends differ, reversed twice
C4_Witness ==
    /\ scen = "reverse" /\ Has("revrev") /\ ~Val("f").Infinite
    /\ Len(Val("f").Parts) = MaxParts
    /\ Val("f").Parts[1] # Val("f").Parts[MaxParts]

\* ------------------------------------------------------------------------
\* Values, resources and programs of the machine
\* ------------------------------------------------------------------------

TYPE_ACCOUNT == "account"
TYPE_ASSET == "asset"
TYPE_NUMBER == "number"
TYPE_STRING == "string"
TYPE_MONETARY == "monetary"
TYPE_FUNDING == "funding"
TYPE_PORTION == "portion"
TYPE_ALLOTMENT == "allotment"

AccountV(name) == [type |-> TYPE_ACCOUNT, name |-> name]
AssetV(code) == [type |-> TYPE_ASSET, code |-> code]
NumberV(n) == [type |-> TYPE_NUMBER, n |-> n]
StringV(str) == [type |-> TYPE_STRING, str |-> str]
MonetaryV(asset, amt) == [type |-> TYPE_MONETARY, Asset |-> asset, Amount |-> amt]
FundingV(f) == [type |-> TYPE_FUNDING, f |-> f]
\* a specific portion, the rational num/den
PortionV(num, den) == [type |-> TYPE_PORTION, num |-> num, den |-> den]
\* an allotment: its portions in order
AllotmentV(portions) == [type |-> TYPE_ALLOTMENT, portions |-> portions]
\* the nil interface value
NilV == [type |-> "nil"]

GetType(v) == v.type

\* core.HasAsset : Asset, Monetary and Funding expose an asset
HasAsset(v) == v.type \in {TYPE_ASSET, TYPE_MONETARY, TYPE_FUNDING}
GetAsset(v) ==
    IF v.type = TYPE_ASSET THEN v.code
    ELSE IF v.type = TYPE_MONETARY THEN v.Asset
    ELSE v.f.Asset

Constant(v) == [kind |-> "Constant", Inner |-> v]
Parameter(typ, name) == [kind |-> "Parameter", Typ |-> typ, Name |-> name]
Metadata(typ, src, key) ==
    [kind |-> "Metadata", Typ |-> typ, SourceAccount |-> src, Key |-> key]

OP_APUSH == "OP_APUSH"
OP_IPUSH == "OP_IPUSH"
OP_BUMP == "OP_BUMP"
OP_IADD == "OP_IADD"
OP_ISUB == "OP_ISUB"
OP_PRINT == "OP_PRINT"
OP_FAIL == "OP_FAIL"
OP_ASSET == "OP_ASSET"
OP_MONETARY_NEW == "OP_MONETARY_NEW"
OP_MONETARY_ADD == "OP_MONETARY_ADD"
OP_TAKE_ALL == "OP_TAKE_ALL"
OP_TAKE == "OP_TAKE"
OP_TAKE_MAX == "OP_TAKE_MAX"
OP_FUNDING_ASSEMBLE == "OP_FUNDING_ASSEMBLE"
OP_FUNDING_SUM == "OP_FUNDING_SUM"
OP_FUNDING_REVERSE == "OP_FUNDING_REVERSE"
OP_REPAY == "OP_REPAY"
OP_SEND == "OP_SEND"
OP_TX_META == "OP_TX_META"
OP_MAKE_ALLOTMENT == "OP_MAKE_ALLOTMENT"
OP_ALLOC == "OP_ALLOC"

\* instruction bytes: an opcode byte, then the operand little-endian
ApushBytes(addr) == <<OP_APUSH, addr % 256, addr \div 256>>
IpushBytes(n) == <<OP_IPUSH, n % 256, n \div 256, 0, 0, 0, 0, 0, 0>>

MakeProgram(name, instructions, resources, needed) ==
    [Name |-> name, Instructions |-> instructions, Resources |-> resources,
     NeededBalances |-> needed]

\* the program the compiler gives for
\*   send [asset T] (source = @s destination = @d)
\* (equal constants share one resource); needed maps account addresses to the
\* addresses whose asset is needed
SendProgram(s, d, asset, T, trackDest) ==
    LET destAddr == IF s = d THEN 1 ELSE 2
    IN  MakeProgram("send",
            ApushBytes(1) \o ApushBytes(0) \o <<OP_ASSET, OP_TAKE_ALL>>
            \o ApushBytes(0) \o <<OP_TAKE>> \o IpushBytes(1)
            \o <<OP_BUMP, OP_REPAY, OP_FUNDING_SUM, OP_TAKE>>
            \o ApushBytes(destAddr) \o <<OP_SEND, OP_REPAY>>,
            IF s = d
            THEN <<Constant(MonetaryV(asset, T)), Constant(AccountV(s))>>
            ELSE <<Constant(MonetaryV(asset, T)), Constant(AccountV(s)),
                   Constant(AccountV(d))>>,
            IF trackDest /\ s # d THEN (1 :> {0}) @@ (2 :> {0}) ELSE (1 :> {0}))

\* vars { account $acc  number $n = meta($acc, "k") }  set_tx_meta("key", $n)
MetaProgram ==
    MakeProgram("meta",
        ApushBytes(1) \o ApushBytes(2) \o <<OP_TX_META>>,
        <<Parameter(TYPE_ACCOUNT, "acc"), Metadata(TYPE_NUMBER, 0, "k"),
          Constant(StringV("key"))>>,
        <<>>)

\* two metadata variables of one account, then a print of each
TwoMetaProgram ==
    MakeProgram("twometa",
        ApushBytes(1) \o <<OP_PRINT>> \o ApushBytes(3) \o <<OP_PRINT>>,
        <<Constant(AccountV("alice")), Metadata(TYPE_NUMBER, 0, "k"),
          Constant(NumberV(1)), Metadata(TYPE_ACCOUNT, 0, "owner")>>,
        <<>>)

\* a metadata entry whose source account is its own slot (not yet resolved)
ForwardMetaProgram ==
    MakeProgram("forwardmeta",
        ApushBytes(1) \o <<OP_PRINT>>,
        <<Constant(AccountV("alice")), Metadata(TYPE_NUMBER, 1, "k")>>,
        <<>>)

\* a metadata entry whose source is resolved but is no account
NotAccountMetaProgram ==
    MakeProgram("notaccountmeta",
        ApushBytes(1) \o <<OP_PRINT>>,
        <<Constant(NumberV(1)), Metadata(TYPE_NUMBER, 0, "k")>>,
        <<>>)

SendAmounts == {0, 1, MaxInt + 1}
BalanceAnswers == {0, 2, MaxInt + 1}

\* needed_balances names a resource that is no account (address 0, the
\* monetary) beside one that is; the program itself only fails
BadNeededProgram ==
    MakeProgram("badneeded",
        <<OP_FAIL>>,
        <<Constant(MonetaryV("COIN", 1)), Constant(AccountV("alice"))>>,
        (0 :> {0}) @@ (1 :> {0}))

\* vars { account $src  account $dst }: the balance of $src in COIN and of
\* $dst in USD are needed; the program takes all COIN of $src and repays it
TwoAccountProgram ==
    MakeProgram("twoaccount",
        ApushBytes(0) \o ApushBytes(2) \o <<OP_ASSET, OP_TAKE_ALL, OP_REPAY>>,
        <<Parameter(TYPE_ACCOUNT, "src"), Parameter(TYPE_ACCOUNT, "dst"),
          Constant(MonetaryV("COIN", 1)), Constant(AssetV("USD"))>>,
        (0 :> {2}) @@ (1 :> {3}))

\* a TAKE of [COIN 1] from all of alice's COIN, above a Monetary that stays
\* on the stack
TakeAboveProgram ==
    MakeProgram("takeabove",
        ApushBytes(0) \o ApushBytes(1) \o ApushBytes(0) \o <<OP_ASSET, OP_TAKE_ALL>>
        \o ApushBytes(0) \o <<OP_TAKE>>,
        <<Constant(MonetaryV("COIN", 1)), Constant(AccountV("alice"))>>,
        1 :> {0})

\* the program of no instruction and no resource
EmptyProgram == MakeProgram("empty", <<>>, <<>>, <<>>)

\* a FAIL above a value left on the stack
FailAboveProgram ==
    MakeProgram("failabove", ApushBytes(0) \o <<OP_FAIL>>,
        <<Constant(MonetaryV("COIN", 1))>>, <<>>)

\* world as source and destination beside a tracked account: all of world's
\* COIN is taken, [COIN 1] of it repaid, [COIN 1] of it sent to world
WorldProgram ==
    MakeProgram("world",
        ApushBytes(1) \o ApushBytes(0) \o <<OP_ASSET, OP_TAKE_ALL>>
        \o ApushBytes(0) \o <<OP_TAKE, OP_REPAY>>
        \o ApushBytes(0) \o <<OP_TAKE>> \o ApushBytes(1) \o <<OP_SEND, OP_REPAY>>,
        <<Constant(MonetaryV("COIN", 1)), Constant(AccountV(WORLD)),
          Constant(AccountV("alice"))>>,
        (1 :> {0}) @@ (2 :> {0}))

\* the totals and the portion tuples of the allocation programs
AllocTotals == {0, 1, MaxInt, MaxUint}
Eighths == <<PortionV(1, 8), PortionV(7, 8)>>
Thirds == <<PortionV(1, 3), PortionV(1, 3), PortionV(1, 3)>>
Fees == <<PortionV(4, 5), PortionV(2, 25), PortionV(3, 25)>>
Half == <<PortionV(1, 2)>>
PortionTuples == {Eighths, Thirds, Fees, Half}

\* the APUSH of the resources first..last, the last one first
RECURSIVE ApushDown(_, _)
ApushDown(last, first) ==
    IF last < first THEN <<>> ELSE ApushBytes(last) \o ApushDown(last - 1, first)

\* [COIN T] is split by the allotment made of the portions: the portions are
\* pushed in reverse order, as the compiler emits them for a destination
AllocProgram(T, portions) ==
    MakeProgram("alloc",
        ApushBytes(0) \o ApushDown(Len(portions), 1)
        \o IpushBytes(Len(portions)) \o <<OP_MAKE_ALLOTMENT, OP_ALLOC>>,
        <<Constant(MonetaryV("COIN", T))>>
        \o [k \in 1..Len(portions) |-> Constant(portions[k])],
        <<>>)

\* send [COIN *] (source = @alice destination = @bob)
SendAllProgram ==
    MakeProgram("sendall",
        ApushBytes(1) \o ApushBytes(0) \o <<OP_TAKE_ALL, OP_FUNDING_SUM, OP_TAKE>>
        \o ApushBytes(2) \o <<OP_SEND, OP_REPAY>>,
        <<Constant(AssetV("COIN")), Constant(AccountV("alice")),
          Constant(AccountV("bob"))>>,
        1 :> {0})

\* the amounts of the two destination programs
AllotmentTotal == 7
InOrderTotal == 5
InOrderMax == 2

\* the instructions every send starts with: all of the source is taken, the
\* amount of resource 0 is taken of it and the rest repaid
TakeFromSource ==
    ApushBytes(1) \o ApushBytes(0) \o <<OP_ASSET, OP_TAKE_ALL>>
    \o ApushBytes(0) \o <<OP_TAKE>> \o IpushBytes(1) \o <<OP_BUMP, OP_REPAY>>

\* send [COIN 7] (source = @alice destination = {1/8 to @bob 7/8 to @carol})
DestinationAllotmentProgram ==
    MakeProgram("allotment",
        TakeFromSource
        \o <<OP_FUNDING_SUM>> \o ApushBytes(2) \o ApushBytes(3) \o IpushBytes(2)
        \o <<OP_MAKE_ALLOTMENT, OP_ALLOC>>
        \o IpushBytes(2) \o <<OP_BUMP>> \o IpushBytes(1) \o <<OP_BUMP>>
        \o <<OP_TAKE, OP_FUNDING_SUM, OP_TAKE>> \o ApushBytes(4) \o <<OP_SEND>>
        \o IpushBytes(1) \o <<OP_BUMP>> \o IpushBytes(2) \o <<OP_FUNDING_ASSEMBLE>>
        \o IpushBytes(1) \o <<OP_BUMP>>
        \o <<OP_TAKE, OP_FUNDING_SUM, OP_TAKE>> \o ApushBytes(5) \o <<OP_SEND>>
        \o IpushBytes(1) \o <<OP_BUMP>> \o IpushBytes(2)
        \o <<OP_FUNDING_ASSEMBLE, OP_REPAY>>,
        <<Constant(MonetaryV("COIN", AllotmentTotal)), Constant(AccountV("alice")),
          Constant(PortionV(7, 8)), Constant(PortionV(1, 8)),
          Constant(AccountV("bob")), Constant(AccountV("carol"))>>,
        1 :> {0})

\* send [COIN 5] (source = @alice
\*                destination = {max [COIN 2] to @bob remaining to @carol})
DestinationInOrderProgram ==
    MakeProgram("inorder",
        TakeFromSource
        \o <<OP_FUNDING_SUM, OP_ASSET>> \o IpushBytes(0) \o <<OP_MONETARY_NEW>>
        \o IpushBytes(1) \o <<OP_BUMP>>
        \o ApushBytes(2) \o <<OP_TAKE_MAX, OP_FUNDING_SUM, OP_TAKE>>
        \o ApushBytes(3) \o <<OP_SEND, OP_FUNDING_SUM>>
        \o IpushBytes(3) \o <<OP_BUMP, OP_MONETARY_ADD>>
        \o IpushBytes(1) \o <<OP_BUMP>> \o IpushBytes(2) \o <<OP_BUMP>>
        \o IpushBytes(2) \o <<OP_FUNDING_ASSEMBLE, OP_FUNDING_REVERSE>>
        \o IpushBytes(1) \o <<OP_BUMP, OP_TAKE, OP_FUNDING_REVERSE>>
        \o IpushBytes(1) \o <<OP_BUMP, OP_FUNDING_REVERSE, OP_FUNDING_SUM, OP_TAKE>>
        \o ApushBytes(4) \o <<OP_SEND>>
        \o IpushBytes(1) \o <<OP_BUMP>> \o IpushBytes(2)
        \o <<OP_FUNDING_ASSEMBLE, OP_REPAY>>,
        <<Constant(MonetaryV("COIN", InOrderTotal)), Constant(AccountV("alice")),
          Constant(MonetaryV("COIN", InOrderMax)), Constant(AccountV("bob")),
          Constant(AccountV("carol"))>>,
        1 :> {0})

\* an opcode byte that tick's switch does not know
OP_UNKNOWN == "OP_UNKNOWN"

InvalidKinds == {"apush", "opcode", "asset", "take", "takemax", "monetaryadd"}

\* one program per kind of invalid operand: an address past the resource
\* table, an unknown opcode, ASSET on an account, TAKE and TAKE_MAX of USD from
\* a COIN funding, MONETARY_ADD of COIN and USD
InvalidInstructions(kind) ==
    LET worldFunding == ApushBytes(0) \o ApushBytes(2) \o <<OP_TAKE_ALL>>
    IN  CASE kind = "apush" -> ApushBytes(5)
          [] kind = "opcode" -> <<OP_UNKNOWN>>
          [] kind = "asset" -> ApushBytes(1) \o <<OP_ASSET>>
          [] kind = "take" -> worldFunding \o ApushBytes(3) \o <<OP_TAKE>>
          [] kind = "takemax" -> worldFunding \o ApushBytes(3) \o <<OP_TAKE_MAX>>
          [] kind = "monetaryadd" -> ApushBytes(4) \o ApushBytes(3) \o <<OP_MONETARY_ADD>>

InvalidProgram(kind) ==
    MakeProgram("invalid", InvalidInstructions(kind),
        <<Constant(AccountV(WORLD)), Constant(AccountV("alice")),
          Constant(AssetV("COIN")), Constant(MonetaryV("USD", 1)),
          Constant(MonetaryV("COIN", 1))>>,
        <<>>)

\* pairs (a, b) of Numbers pushed for IADD and ISUB
ArithOperands == {<<2, 1>>, <<1, 2>>, <<MaxUint, 1>>, <<0, 0>>}

\* push a, push b, apply op and print the result
ArithProgram(op, a, b) ==
    MakeProgram("arith", IpushBytes(a) \o IpushBytes(b) \o <<op, OP_PRINT>>,
                <<>>, <<>>)

ArithPrograms ==
    {ArithProgram(op, ab[1], ab[2]) : op \in {OP_IADD, OP_ISUB}, ab \in ArithOperands}

\* [COIN a] + [COIN b], printed
MonetaryAddProgram(a, b) ==
    MakeProgram("monetaryadd",
        ApushBytes(0) \o ApushBytes(1) \o <<OP_MONETARY_ADD, OP_PRINT>>,
        <<Constant(MonetaryV("COIN", a)), Constant(MonetaryV("COIN", b))>>, <<>>)

\* alice and bob are emptied and their fundings assembled, summed and the sum
\* printed; then either half the word is taken and sent to bob and the rest
\* repaid, or all of it is sent to alice
OverflowProgram(viaRepay) ==
    MakeProgram("overflow",
        ApushBytes(0) \o ApushBytes(2) \o <<OP_TAKE_ALL>>
        \o ApushBytes(1) \o ApushBytes(2) \o <<OP_TAKE_ALL>>
        \o IpushBytes(2) \o <<OP_FUNDING_ASSEMBLE, OP_FUNDING_SUM, OP_PRINT>>
        \o (IF viaRepay
            THEN ApushBytes(3) \o <<OP_TAKE>> \o ApushBytes(1) \o <<OP_SEND, OP_REPAY>>
            ELSE ApushBytes(0) \o <<OP_SEND>>),
        <<Constant(AccountV("alice")), Constant(AccountV("bob")),
          Constant(AssetV("COIN")), Constant(MonetaryV("COIN", MaxInt + 1))>>,
        (0 :> {2}) @@ (1 :> {2}))

OverflowPrograms ==
    {MonetaryAddProgram(1, 2), MonetaryAddProgram(MaxUint, 1)}
    \cup {OverflowProgram(viaRepay) : viaRepay \in BOOLEAN}

\* alice's balance is withdrawn, split by op at [COIN m], and both fundings
\* are repaid; bob's balance is tracked as well when trackBob
RoundTripProgram(op, m, trackBob) ==
    MakeProgram("roundtrip",
        ApushBytes(1) \o ApushBytes(0) \o <<OP_ASSET, OP_TAKE_ALL>>
        \o ApushBytes(0) \o <<op, OP_REPAY, OP_REPAY>>,
        <<Constant(MonetaryV("COIN", m)), Constant(AccountV("alice")),
          Constant(AccountV("bob"))>>,
        IF trackBob THEN (1 :> {0}) @@ (2 :> {0}) ELSE (1 :> {0}))

RoundTripPrograms ==
    {RoundTripProgram(OP_TAKE, 1, TRUE), RoundTripProgram(OP_TAKE, 0, FALSE),
     RoundTripProgram(OP_TAKE_MAX, 1, FALSE),
     RoundTripProgram(OP_TAKE_MAX, MaxInt + 1, FALSE)}

\* the funding of a source in order, `source = {@first @bob}`: each account is
\* emptied, then the n topmost fundings are assembled and repaid
AssembleProgram(first, asset2, n) ==
    MakeProgram("assemble",
        ApushBytes(0) \o ApushBytes(2) \o <<OP_TAKE_ALL>>
        \o ApushBytes(1) \o ApushBytes(3) \o <<OP_TAKE_ALL>>
        \o IpushBytes(n) \o <<OP_FUNDING_ASSEMBLE, OP_REPAY>>,
        <<Constant(AccountV(first)), Constant(AccountV("bob")),
          Constant(AssetV("COIN")), Constant(AssetV(asset2))>>,
        (0 :> {2}) @@ (1 :> {3}))

AssemblePrograms ==
    {AssembleProgram("alice", "COIN", n) : n \in 0..2}
    \cup {AssembleProgram("alice", "USD", 2), AssembleProgram(WORLD, "COIN", 2)}

Programs ==
    {SendProgram("alice", d, "COIN", T, td) :
        d \in {"alice", "bob"}, T \in SendAmounts, td \in BOOLEAN}
    \cup {MetaProgram, TwoMetaProgram, ForwardMetaProgram, NotAccountMetaProgram}
    \cup {BadNeededProgram, TwoAccountProgram}
    \cup {SendProgram(WORLD, WORLD, "COIN", 1, FALSE)}
    \cup {TakeAboveProgram, EmptyProgram, FailAboveProgram, WorldProgram}
    \cup {AllocProgram(T, ps) : T \in AllocTotals, ps \in PortionTuples}
    \cup {SendAllProgram, DestinationAllotmentProgram, DestinationInOrderProgram}
    \cup AssemblePrograms
    \cup {InvalidProgram(kind) : kind \in InvalidKinds}
    \cup ArithPrograms
    \cup OverflowPrograms
    \cup RoundTripPrograms

\* the variable maps a caller passes to SetVars
VarChoices ==
    {<<>>, "acc" :> AccountV("alice"), "acc" :> AccountV("bob"), "acc" :> NumberV(1)}
    \cup {("src" :> AccountV("alice")) @@ ("dst" :> AccountV(d)) :
              d \in {"alice", "bob", WORLD}}

\* the values a caller answers to a MetadataRequest
MetadataAnswers == {NilV, NumberV(1), AccountV("bob")}

\* ------------------------------------------------------------------------
\* vm/machine.go : the Machine, its caller and its two resolver goroutines
\* ------------------------------------------------------------------------

\* how often SetVars may succeed in one run of the model
MaxSetVars == 2

EXIT_OK == 1
EXIT_FAIL == 2
EXIT_FAIL_INVALID == 3
EXIT_FAIL_INSUFFICIENT_FUNDS == 4

UnresolvedResources == Program.Resources

EmptyMap == [x \in {} |-> 0]

NoMsg == [Error |-> "", Account |-> "", Key |-> "", Asset |-> "", Response |-> -1]

RRIdle == [pc |-> "idle", msg |-> NoMsg, val |-> NilV]
RBIdle == [pc |-> "idle", todo |-> {}, addr |-> -1, account |-> "", assets |-> {},
           assetAddr |-> -1, asset |-> "", msg |-> NoMsg, val |-> 0]

\* NewMachine
InitMachine(p) ==
    /\ Program = p
    /\ P = 0
    /\ Vars = EmptyMap
    /\ Resources = <<>>
    /\ resolve_called = FALSE
    /\ Balances = EmptyMap
    /\ BalancesNil = TRUE
    /\ set_balance_called = FALSE
    /\ Stack = <<>>
    /\ Postings = <<>>
    /\ TxMeta = EmptyMap
    /\ print_closed = FALSE
    /\ Printed = <<>>
    /\ rr = RRIdle
    /\ md_stream = <<>>
    /\ md_answers = EmptyMap
    /\ rb = RBIdle
    /\ bal_stream = <<>>
    /\ bal_answers = <<>>
    /\ exec = [pc |-> "idle", ticks |-> 0, calls |-> 0, ready |-> FALSE,
               initial |-> EmptyMap]
    /\ ret = [call |-> "NewMachine", err |-> "", exit_code |-> 0]
    /\ effects = [SetVars |-> 0, ResolveResources |-> 0, ResolveBalances |-> 0]
    /\ crashed = FALSE

\* the caller is one thread: it makes no call while it is inside Execute
CallerFree == ~crashed /\ exec.pc # "running"

Returned(call, err, code) == [call |-> call, err |-> err, exit_code |-> code]

\* Machine.getResource
getResource(addr) ==
    IF addr >= Len(Resources) THEN [ok |-> FALSE, v |-> NilV]
    ELSE [ok |-> TRUE, v |-> Resources[addr + 1]]

IsParameter(res) == res.kind = "Parameter"

\* Program.ParseVariables: every declared parameter must be given a value of
\* its type; the values of the parameters are returned
ParseVariables(p, given) ==
    LET params == {i \in 1..Len(p.Resources) : IsParameter(p.Resources[i])}
        names  == {p.Resources[i].Name : i \in params}
        good   == \A i \in params :
                      /\ p.Resources[i].Name \in DOMAIN given
                      /\ GetType(given[p.Resources[i].Name]) = p.Resources[i].Typ
    IN  [err |-> ~good, v |-> [n \in names |-> IF good THEN given[n] ELSE NilV]]

VarChoicesFor(p) ==
    LET params == {i \in 1..Len(p.Resources) : IsParameter(p.Resources[i])}
        names  == {p.Resources[i].Name : i \in params}
    IN  IF params = {} THEN {EmptyMap}
        ELSE {given \in VarChoices : DOMAIN given \subseteq names}

\* Machine.SetVars
SetVars(given) ==
    /\ CallerFree
    /\ effects.SetVars < MaxSetVars
    /\ LET r == ParseVariables(Program, given)
       IN  IF r.err
           THEN /\ ret' = Returned("SetVars", "variable parsing", 0)
                /\ UNCHANGED <<Vars, effects>>
           ELSE /\ Vars' = r.v
                /\ effects' = [effects EXCEPT !.SetVars = @ + 1]
                /\ ret' = Returned("SetVars", "", 0)
    /\ UNCHANGED <<algVars, Program, P, Resources, resolve_called, Balances,
                   BalancesNil, set_balance_called, Stack, Postings, TxMeta,
                   print_closed, Printed, rr, md_stream, md_answers, rb,
                   bal_stream, bal_answers, exec, crashed>>

CallSetVars == \E given \in VarChoicesFor(Program) : SetVars(given)

\* Machine.ResolveResources: the call (the goroutine is RRLoop .. RRGot)
ResolveResources ==
    /\ CallerFree
    /\ IF resolve_called
       THEN /\ ret' = Returned("ResolveResources", "tried to call ResolveResources twice", 0)
            /\ UNCHANGED <<resolve_called, rr, effects>>
       ELSE /\ resolve_called' = TRUE
            /\ rr' = [RRIdle EXCEPT !.pc = "loop"]
            /\ effects' = [effects EXCEPT !.ResolveResources = @ + 1]
            /\ ret' = Returned("ResolveResources", "", 0)
    /\ UNCHANGED <<algVars, Program, P, Vars, Resources, Balances, BalancesNil,
                   set_balance_called, Stack, Postings, TxMeta, print_closed,
                   Printed, md_stream, md_answers, rb, bal_stream, bal_answers,
                   exec, crashed>>

MdError(text) == [NoMsg EXCEPT !.Error = text]
MdRequest(account, key, idx) ==
    [NoMsg EXCEPT !.Account = account, !.Key = key, !.Response = idx]

RRSend(msg) == rr' = [rr EXCEPT !.pc = "send", !.msg = msg]

rrFrame == <<algVars, Program, P, Vars, resolve_called, Balances, BalancesNil,
             set_balance_called, Stack, Postings, TxMeta, print_closed, Printed,
             md_stream, md_answers, rb, bal_stream, bal_answers, exec, ret,
             effects, crashed>>

ResolveEntryNoSourceCheckBug(idx) ==
    LET res == UnresolvedResources[idx + 1]
    IN  CASE res.kind = "Constant" ->
                [append |-> TRUE, val |-> res.Inner, msg |-> NoMsg]
          [] res.kind = "Parameter" ->
                IF res.Name \in DOMAIN Vars
                THEN [append |-> TRUE, val |-> Vars[res.Name], msg |-> NoMsg]
                ELSE [append |-> FALSE, val |-> NilV, msg |-> MdError("missing variable")]
          [] res.kind = "Metadata" ->
                [append |-> FALSE, val |-> NilV, msg |-> MdRequest("", res.Key, idx)]

\* what one pass of the resolution loop does with table entry idx
\* (0-based): append a value, or offer a message on the channel
ResolveEntry(idx) ==
    LET res == UnresolvedResources[idx + 1]
    IN  CASE res.kind = "Constant" ->
                [append |-> TRUE, val |-> res.Inner, msg |-> NoMsg]
          [] res.kind = "Parameter" ->
                IF res.Name \in DOMAIN Vars
                THEN [append |-> TRUE, val |-> Vars[res.Name], msg |-> NoMsg]
                ELSE [append |-> FALSE, val |-> NilV, msg |-> MdError("missing variable")]
          [] res.kind = "Metadata" ->
                LET source_account == getResource(res.SourceAccount)
                IN  IF ~source_account.ok
                    THEN [append |-> FALSE, val |-> NilV,
                          msg |-> MdError("account not yet solved")]
                    ELSE IF GetType(source_account.v) # TYPE_ACCOUNT
                    THEN [append |-> FALSE, val |-> NilV,
                          msg |-> MdError("metadata on wrong entity")]
                    ELSE [append |-> FALSE, val |-> NilV,
                          msg |-> MdRequest(source_account.v.name, res.Key, idx)]

\* the goroutine of ResolveResources, one pass of its loop up to the append
\* or to the send it blocks on; leaving the loop closes the channel
RRLoop ==
    /\ ~crashed
    /\ rr.pc = "loop"
    /\ IF Len(Resources) = Len(UnresolvedResources)
       THEN /\ rr' = [rr EXCEPT !.pc = "closed"]
            /\ UNCHANGED Resources
       ELSE LET e == ResolveEntry(Len(Resources))
            IN  IF e.append
                THEN /\ Resources' = Append(Resources, e.val)
                     /\ UNCHANGED rr
                ELSE /\ RRSend(e.msg)
                     /\ UNCHANGED Resources
    /\ UNCHANGED rrFrame

\* the caller receives the message offered on the metadata channel; after an
\* Error message the goroutine returns and the channel is closed
MdReceive ==
    /\ CallerFree
    /\ rr.pc = "send"
    /\ md_stream' = Append(md_stream, rr.msg)
    /\ rr' = [rr EXCEPT !.pc = IF rr.msg.Error # "" THEN "closed" ELSE "recv"]
    /\ UNCHANGED <<algVars, Program, P, Vars, Resources, resolve_called, Balances,
                   BalancesNil, set_balance_called, Stack, Postings, TxMeta,
                   print_closed, Printed, md_answers, rb, bal_stream,
                   bal_answers, exec, ret, effects, crashed>>

\* the caller writes a value to the Response channel of the last request
MdAnswer(v) ==
    /\ CallerFree
    /\ rr.pc = "recv"
    /\ rr' = [rr EXCEPT !.pc = "got", !.val = v]
    /\ md_answers' = (rr.msg.Response :> v) @@ md_answers
    /\ UNCHANGED <<algVars, Program, P, Vars, Resources, resolve_called, Balances,
                   BalancesNil, set_balance_called, Stack, Postings, TxMeta,
                   print_closed, Printed, md_stream, rb, bal_stream,
                   bal_answers, exec, ret, effects, crashed>>

CallerAnswersMetadata == \E v \in MetadataAnswers : MdAnswer(v)

CheckAnswerNoTypeBug(res, val) ==
    IF val = NilV THEN [append |-> FALSE, msg |-> MdError("tried to set nil as resource")]
    ELSE [append |-> TRUE, msg |-> NoMsg]

\* what the goroutine does with the value val received for the Metadata entry res
CheckAnswer(res, val) ==
    IF val = NilV THEN [append |-> FALSE, msg |-> MdError("tried to set nil as resource")]
    ELSE IF GetType(val) # res.Typ THEN [append |-> FALSE, msg |-> MdError("wrong type")]
    ELSE [append |-> TRUE, msg |-> NoMsg]

RRGotForgetsAppendBug ==
    /\ ~crashed
    /\ rr.pc = "got"
    /\ LET c == CheckAnswer(UnresolvedResources[Len(Resources) + 1], rr.val)
       IN  IF c.append
           THEN /\ rr' = [rr EXCEPT !.pc = "loop", !.msg = NoMsg, !.val = NilV]
                /\ UNCHANGED Resources
           ELSE /\ RRSend(c.msg)
                /\ UNCHANGED Resources
    /\ UNCHANGED rrFrame

\* the goroutine, from the receive of the response to the append
RRGot ==
    /\ ~crashed
    /\ rr.pc = "got"
    /\ LET c == CheckAnswer(UnresolvedResources[Len(Resources) + 1], rr.val)
       IN  IF c.append
           THEN /\ Resources' = Append(Resources, rr.val)
                /\ rr' = [rr EXCEPT !.pc = "loop", !.msg = NoMsg, !.val = NilV]
           ELSE /\ RRSend(c.msg)
                /\ UNCHANGED Resources
    /\ UNCHANGED rrFrame

\* Machine.ResolveBalances: the call (the goroutine is RBStart .. RBGot)
ResolveBalances ==
    /\ CallerFree
    /\ IF Len(Resources) # Len(UnresolvedResources)
       THEN /\ ret' = Returned("ResolveBalances", "tried to resolve balances before resources", 0)
            /\ UNCHANGED <<set_balance_called, rb, effects>>
       ELSE IF set_balance_called
       THEN /\ ret' = Returned("ResolveBalances", "tried to call ResolveBalances twice", 0)
            /\ UNCHANGED <<set_balance_called, rb, effects>>
       ELSE /\ set_balance_called' = TRUE
            /\ rb' = [RBIdle EXCEPT !.pc = "start"]
            /\ effects' = [effects EXCEPT !.ResolveBalances = @ + 1]
            /\ ret' = Returned("ResolveBalances", "", 0)
    /\ UNCHANGED <<algVars, Program, P, Vars, Resources, resolve_called, Balances,
                   BalancesNil, Stack, Postings, TxMeta, print_closed, Printed,
                   rr, md_stream, md_answers, bal_stream, bal_answers, exec,
                   crashed>>

rbFrame == <<algVars, Program, P, Vars, Resources, resolve_called,
             set_balance_called, Stack, Postings, TxMeta, print_closed, Printed,
             rr, md_stream, md_answers, bal_stream, bal_answers, exec, ret,
             effects, crashed>>

BalError(text) == [NoMsg EXCEPT !.Error = text]
BalRequest(account, asset) ==
    [NoMsg EXCEPT !.Account = account, !.Asset = asset, !.Response = 0]

\* the goroutine of ResolveBalances: m.Balances = make(...)
RBStart ==
    /\ ~crashed
    /\ rb.pc = "start"
    /\ Balances' = EmptyMap
    /\ BalancesNil' = FALSE
    /\ rb' = [rb EXCEPT !.pc = "outer", !.todo = DOMAIN Program.NeededBalances]
    /\ UNCHANGED rbFrame

\* the loop does not skip the account world
RBOuterKeepsWorldBug ==
    /\ ~crashed
    /\ rb.pc = "outer"
    /\ IF rb.todo = {}
       THEN /\ rb' = [rb EXCEPT !.pc = "closed"]
            /\ UNCHANGED Balances
       ELSE \E addr \in rb.todo :
              LET account == getResource(addr)
                  rest == rb.todo \ {addr}
              IN  IF ~account.ok
                  THEN /\ rb' = [rb EXCEPT !.pc = "send", !.todo = rest,
                                    !.msg = BalError("invalid address of account")]
                       /\ UNCHANGED Balances
                  ELSE IF GetType(account.v) # TYPE_ACCOUNT
                  THEN /\ rb' = [rb EXCEPT !.pc = "send", !.todo = rest,
                                    !.msg = BalError("not an account")]
                       /\ UNCHANGED Balances
                  ELSE /\ Balances' = (account.v.name :> EmptyMap) @@ Balances
                       /\ rb' = [rb EXCEPT !.pc = "inner", !.todo = rest, !.addr = addr,
                                    !.account = account.v.name,
                                    !.assets = Program.NeededBalances[addr]]
    /\ UNCHANGED <<rbFrame, BalancesNil>>

\* one pass of the loop over NeededBalances (a map: any order), up to the
\* creation of the account's balance map; leaving the loop closes the channel
RBOuter ==
    /\ ~crashed
    /\ rb.pc = "outer"
    /\ IF rb.todo = {}
       THEN /\ rb' = [rb EXCEPT !.pc = "closed"]
            /\ UNCHANGED Balances
       ELSE \E addr \in rb.todo :
              LET account == getResource(addr)
                  rest == rb.todo \ {addr}
              IN  IF ~account.ok
                  THEN /\ rb' = [rb EXCEPT !.pc = "send", !.todo = rest,
                                    !.msg = BalError("invalid address of account")]
                       /\ UNCHANGED Balances
                  ELSE IF GetType(account.v) # TYPE_ACCOUNT
                  THEN /\ rb' = [rb EXCEPT !.pc = "send", !.todo = rest,
                                    !.msg = BalError("not an account")]
                       /\ UNCHANGED Balances
                  ELSE IF account.v.name = WORLD
                  THEN /\ rb' = [rb EXCEPT !.todo = rest]
                       /\ UNCHANGED Balances
                  ELSE /\ Balances' = (account.v.name :> EmptyMap) @@ Balances
                       /\ rb' = [rb EXCEPT !.pc = "inner", !.todo = rest, !.addr = addr,
                                    !.account = account.v.name,
                                    !.assets = Program.NeededBalances[addr]]
    /\ UNCHANGED <<rbFrame, BalancesNil>>

\* one pass of the loop over the needed assets of the account (a map: any
\* order), up to the send it blocks on
RBInner ==
    /\ ~crashed
    /\ rb.pc = "inner"
    /\ IF rb.assets = {}
       THEN rb' = [rb EXCEPT !.pc = "outer"]
       ELSE \E addr \in rb.assets :
              LET mon == getResource(addr)
                  rest == rb.assets \ {addr}
              IN  IF ~mon.ok
                  THEN rb' = [rb EXCEPT !.pc = "send", !.assets = rest,
                                 !.msg = BalError("invalid address of monetary")]
                  ELSE IF ~HasAsset(mon.v)
                  THEN rb' = [rb EXCEPT !.pc = "send", !.assets = rest,
                                 !.msg = BalError("not an asset")]
                  ELSE rb' = [rb EXCEPT !.pc = "send", !.assets = rest,
                                 !.assetAddr = addr, !.asset = GetAsset(mon.v),
                                 !.msg = BalRequest(rb.account, GetAsset(mon.v))]
    /\ UNCHANGED <<rbFrame, Balances, BalancesNil>>

BalReceiveGoesOnBug ==
    /\ CallerFree
    /\ rb.pc = "send"
    /\ bal_stream' = Append(bal_stream, rb.msg)
    /\ rb' = [rb EXCEPT !.pc = IF rb.msg.Error # "" THEN "outer" ELSE "recv"]
    /\ UNCHANGED <<algVars, Program, P, Vars, Resources, resolve_called, Balances,
                   BalancesNil, set_balance_called, Stack, Postings, TxMeta,
                   print_closed, Printed, rr, md_stream, md_answers,
                   bal_answers, exec, ret, effects, crashed>>

\* the caller receives the message offered on the balance channel
\* the goroutine does not wait for the response of a request
BalReceiveNoWaitBug ==
    /\ CallerFree
    /\ rb.pc = "send"
    /\ bal_stream' = Append(bal_stream, rb.msg)
    /\ rb' = [rb EXCEPT !.pc = IF rb.msg.Error # "" THEN "closed" ELSE "got"]
    /\ UNCHANGED <<algVars, Program, P, Vars, Resources, resolve_called, Balances,
                   BalancesNil, set_balance_called, Stack, Postings, TxMeta,
                   print_closed, Printed, rr, md_stream, md_answers,
                   bal_answers, exec, ret, effects, crashed>>

BalReceive ==
    /\ CallerFree
    /\ rb.pc = "send"
    /\ bal_stream' = Append(bal_stream, rb.msg)
    /\ rb' = [rb EXCEPT !.pc = IF rb.msg.Error # "" THEN "closed" ELSE "recv"]
    /\ UNCHANGED <<algVars, Program, P, Vars, Resources, resolve_called, Balances,
                   BalancesNil, set_balance_called, Stack, Postings, TxMeta,
                   print_closed, Printed, rr, md_stream, md_answers,
                   bal_answers, exec, ret, effects, crashed>>

\* the caller writes a balance to the Response channel of the last request
BalAnswer(b) ==
    /\ CallerFree
    /\ rb.pc = "recv"
    /\ rb' = [rb EXCEPT !.pc = "got", !.val = b]
    /\ bal_answers' = Append(bal_answers,
                             [addr |-> rb.addr, assetAddr |-> rb.assetAddr,
                              Account |-> rb.msg.Account, Asset |-> rb.msg.Asset,
                              val |-> b])
    /\ UNCHANGED <<algVars, Program, P, Vars, Resources, resolve_called, Balances,
                   BalancesNil, set_balance_called, Stack, Postings, TxMeta,
                   print_closed, Printed, rr, md_stream, md_answers,
                   bal_stream, exec, ret, effects, crashed>>

CallerAnswersBalance == \E b \in BalanceAnswers : BalAnswer(b)

\* the goroutine waits for a second value on the response channel
RBGotWaitsAgainBug ==
    /\ ~crashed
    /\ rb.pc = "got"
    /\ rb' = [rb EXCEPT !.pc = "blocked"]
    /\ UNCHANGED <<rbFrame, Balances, BalancesNil>>

\* the goroutine, from the receive of the response to the store of the balance
RBGot ==
    /\ ~crashed
    /\ rb.pc = "got"
    /\ Balances' = [Balances EXCEPT
                      ![rb.account] = (rb.asset :> rb.val) @@ @]
    /\ rb' = [rb EXCEPT !.pc = "inner", !.msg = NoMsg, !.val = 0]
    /\ UNCHANGED <<rbFrame, BalancesNil>>

\* ------------------------------------------------------------------------
\* vm/machine.go : the interpreter.  The machine fields a tick works on are
\* gathered in a record m = [P, Stack, Balances, Postings, TxMeta, Printed];
\* a tick yields the record after it and how it ended: "next" (go on),
\* "halt" (tick returned true with a code) or "panic".
\* ------------------------------------------------------------------------

Outcome(m, kind, code) == [m |-> m, kind |-> kind, code |-> code]
Halt(m, code) == Outcome(m, "halt", code)
Panic(m) == Outcome(m, "panic", 0)

StackTop(st) == st[Len(st)]
StackPop(st) == SubSeq(st, 1, Len(st) - 1)
\* the k-th value from the top (1 = top)
StackAt(st, k) == st[Len(st) + 1 - k]
\* the stack without its k topmost values
StackDrop(st, k) == SubSeq(st, 1, Len(st) - k)

\* the typed pops (popNumber, popAsset, ...): the k topmost values exist and
\* have the types asked for, types[1] for the top; "any" matches every type
CanPop(st, types) ==
    /\ Len(st) >= Len(types)
    /\ \A k \in 1..Len(types) :
          types[k] = "any" \/ GetType(StackAt(st, k)) = types[k]

\* a pop that finds no value or a value of another type ends the run as an
\* invalid program
PopMismatch(m) == Halt(m, EXIT_FAIL_INVALID)

RECURSIVE LittleEndian(_)
LittleEndian(bytes) ==
    IF bytes = <<>> THEN 0 ELSE bytes[1] + 256 * LittleEndian(Tail(bytes))

\* m.Program.Instructions[m.P+from : m.P+to]
Operand(m, from, to) == SubSeq(Program.Instructions, m.P + from + 1, m.P + to)

Push(m, v) == [m EXCEPT !.Stack = Append(@, v)]

HasBalance(bal, account, asset) ==
    account \in DOMAIN bal /\ asset \in DOMAIN bal[account]

\* withdrawAll that hands out the balance without zeroing the entry
withdrawAllKeepsBalanceBug(bal, account, asset) ==
    IF account = WORLD
    THEN [err |-> FALSE, bal |-> bal, funding |-> Funding(asset, <<>>, TRUE)]
    ELSE IF HasBalance(bal, account, asset)
    THEN [err |-> FALSE, bal |-> bal,
          funding |-> Funding(asset, <<FundingPart(account, bal[account][asset])>>, FALSE)]
    ELSE [err |-> TRUE, bal |-> bal, funding |-> ZeroFunding]

\* Machine.withdrawAll
withdrawAll(bal, account, asset) ==
    IF account = WORLD
    THEN [err |-> FALSE, bal |-> bal, funding |-> Funding(asset, <<>>, TRUE)]
    ELSE IF HasBalance(bal, account, asset)
    THEN [err |-> FALSE,
          bal |-> [bal EXCEPT ![account][asset] = 0],
          funding |-> Funding(asset, <<FundingPart(account, bal[account][asset])>>, FALSE)]
    ELSE [err |-> TRUE, bal |-> bal, funding |-> ZeroFunding]

\* Machine.credit
credit(bal, account, funding) ==
    IF account = WORLD THEN bal
    ELSE IF HasBalance(bal, account, funding.Asset)
    THEN [bal EXCEPT ![account][funding.Asset] = Wrap(@ + SumAmounts(funding.Parts))]
    ELSE bal

\* Machine.repay: the balances after the loop, or a panic on the first part
\* whose account has no balance map (assignment to an entry of a nil map)
RECURSIVE repay(_, _, _)
repay(bal, asset, parts) ==
    IF parts = <<>> THEN [panic |-> FALSE, bal |-> bal]
    ELSE LET part == Head(parts)
         IN  IF part.Account = WORLD THEN repay(bal, asset, Tail(parts))
             ELSE IF part.Account \notin DOMAIN bal THEN [panic |-> TRUE, bal |-> bal]
             ELSE LET old == IF asset \in DOMAIN bal[part.Account]
                             THEN bal[part.Account][asset] ELSE 0
                      bal2 == [bal EXCEPT ![part.Account] =
                                   (asset :> Wrap(old + part.Amount)) @@ @]
                  IN  repay(bal2, asset, Tail(parts))

Posting(src, dest, asset, amt) ==
    [Source |-> src, Destination |-> dest, Asset |-> asset, Amount |-> amt]

\* the postings OP_SEND appends for the parts of a funding sent to dest
RECURSIVE SendPostings(_, _, _)
SendPostings(parts, dest, asset) ==
    IF parts = <<>> THEN <<>>
    ELSE LET part == Head(parts)
             rest == SendPostings(Tail(parts), dest, asset)
         IN  IF part.Amount = 0 THEN rest
             ELSE <<Posting(part.Account, dest, asset, ToInt64(part.Amount))>> \o rest

\* the left fold of Concat over fundings, starting from result
RECURSIVE ConcatAll(_, _)
ConcatAll(result, fundings) ==
    IF fundings = <<>> THEN [err |-> FALSE, funding |-> result]
    ELSE LET c == Concat(result, Head(fundings))
         IN  IF c.err THEN c ELSE ConcatAll(c.funding, Tail(fundings))

OpApush(m) ==
    IF m.P + 3 > Len(Program.Instructions) THEN Panic(m)
    ELSE LET v == getResource(LittleEndian(Operand(m, 1, 3)))
         IN  IF ~v.ok THEN Halt(m, EXIT_FAIL)
             ELSE Outcome([Push(m, v.v) EXCEPT !.P = @ + 2], "next", 0)

OpIpush(m) ==
    IF m.P + 9 > Len(Program.Instructions) THEN Panic(m)
    ELSE Outcome([Push(m, NumberV(Wrap(LittleEndian(Operand(m, 1, 9)))))
                    EXCEPT !.P = @ + 8], "next", 0)

OpBump(m) ==
    IF ~CanPop(m.Stack, <<TYPE_NUMBER>>) THEN PopMismatch(m)
    ELSE LET n   == StackTop(m.Stack).n
             st  == StackPop(m.Stack)
             idx == Len(st) - n - 1
         IN  IF idx < 0 THEN Panic([m EXCEPT !.Stack = st])
             ELSE Outcome([m EXCEPT !.Stack =
                              SubSeq(st, 1, idx) \o SubSeq(st, idx + 2, Len(st))
                              \o <<st[idx + 1]>>], "next", 0)

OpIadd(m) ==
    IF ~CanPop(m.Stack, <<TYPE_NUMBER, TYPE_NUMBER>>) THEN PopMismatch(m)
    ELSE LET b == StackAt(m.Stack, 1).n
             a == StackAt(m.Stack, 2).n
         IN  Outcome([m EXCEPT !.Stack = Append(StackDrop(@, 2), NumberV(Wrap(a + b)))],
                     "next", 0)

OpIsub(m) ==
    IF ~CanPop(m.Stack, <<TYPE_NUMBER, TYPE_NUMBER>>) THEN PopMismatch(m)
    ELSE LET b == StackAt(m.Stack, 1).n
             a == StackAt(m.Stack, 2).n
         IN  Outcome([m EXCEPT !.Stack =
                          Append(StackDrop(@, 2), NumberV(Wrap(a - b + Modulus)))],
                     "next", 0)

\* OP_PRINT on a machine whose print_chan is closed or not
OpPrintOn(m, closed) ==
    IF ~CanPop(m.Stack, <<"any">>) THEN PopMismatch(m)
    ELSE IF closed THEN Panic([m EXCEPT !.Stack = StackPop(@)])
    ELSE Outcome([m EXCEPT !.Stack = StackPop(@),
                           !.Printed = Append(@, StackTop(m.Stack))], "next", 0)

OpPrint(m) == OpPrintOn(m, print_closed)

OpAsset(m) ==
    IF ~CanPop(m.Stack, <<"any">>) THEN PopMismatch(m)
    ELSE LET v == StackTop(m.Stack)
             popped == [m EXCEPT !.Stack = StackPop(@)]
         IN  IF HasAsset(v) THEN Outcome(Push(popped, AssetV(GetAsset(v))), "next", 0)
             ELSE Halt(popped, EXIT_FAIL_INVALID)

OpMonetaryNew(m) ==
    IF ~CanPop(m.Stack, <<TYPE_NUMBER, TYPE_ASSET>>) THEN PopMismatch(m)
    ELSE LET amt   == StackAt(m.Stack, 1).n
             asset == StackAt(m.Stack, 2).code
         IN  Outcome([m EXCEPT !.Stack = Append(StackDrop(@, 2), MonetaryV(asset, amt))],
                     "next", 0)

OpMonetaryAdd(m) ==
    IF ~CanPop(m.Stack, <<TYPE_MONETARY, TYPE_MONETARY>>) THEN PopMismatch(m)
    ELSE LET b == StackAt(m.Stack, 1)
             a == StackAt(m.Stack, 2)
             popped == [m EXCEPT !.Stack = StackDrop(@, 2)]
         IN  IF a.Asset # b.Asset THEN Halt(popped, EXIT_FAIL_INVALID)
             ELSE Outcome(Push(popped, MonetaryV(a.Asset, Wrap(a.Amount + b.Amount))),
                          "next", 0)

\* the sum of the portions is num/den = 1: the sum of the portions times
\* the product of their denominators equals that product
RECURSIVE DenProduct(_)
DenProduct(portions) ==
    IF portions = <<>> THEN 1 ELSE Head(portions).den * DenProduct(Tail(portions))

RECURSIVE ScaledSum(_, _)
ScaledSum(portions, scale) ==
    IF portions = <<>> THEN 0
    ELSE (Head(portions).num * scale) \div Head(portions).den
         + ScaledSum(Tail(portions), scale)

\* core.NewAllotment: the allotment of the portions, an error unless they
\* sum to exactly 1
NewAllotment(portions) ==
    IF ScaledSum(portions, DenProduct(portions)) = DenProduct(portions)
    THEN [err |-> FALSE, allotment |-> AllotmentV(portions)]
    ELSE [err |-> TRUE, allotment |-> AllotmentV(<<>>)]

\* floor(T * p) and the numerator of the fractional remainder of T * p
Floor(T, p) == (T * p.num) \div p.den
FracNum(T, p) == (T * p.num) % p.den

\* portion j is served before portion i when the units left over are handed
\* out: larger fractional remainder first, ties by index
Before(T, portions, j, i) ==
    LET fj == FracNum(T, portions[j]) * portions[i].den
        fi == FracNum(T, portions[i]) * portions[j].den
    IN  fj > fi \/ (fj = fi /\ j < i)

RECURSIVE SumSeq(_)
SumSeq(ns) == IF ns = <<>> THEN 0 ELSE Head(ns) + SumSeq(Tail(ns))

\* Allotment.Allocate: the integer allocation of T over the portions
Allocate(portions, T) ==
    LET floors == [i \in 1..Len(portions) |-> Floor(T, portions[i])]
        left   == T - SumSeq(floors)
        rank(i) == Cardinality({j \in 1..Len(portions) : Before(T, portions, j, i)})
    IN  [i \in 1..Len(portions) |->
            floors[i] + (IF rank(i) < left THEN 1 ELSE 0)]

\* the n topmost values of the stack are portions
RECURSIVE PortionsOnTop(_, _)
PortionsOnTop(st, n) ==
    n = 0 \/ (st # <<>> /\ GetType(StackTop(st)) = TYPE_PORTION
              /\ PortionsOnTop(StackPop(st), n - 1))

OpMakeAllotment(m) ==
    IF ~CanPop(m.Stack, <<TYPE_NUMBER>>) THEN PopMismatch(m)
    ELSE LET n  == StackTop(m.Stack).n
             st == StackPop(m.Stack)
         IN  IF ~PortionsOnTop(st, n) THEN PopMismatch(m)
             ELSE LET portions == [i \in 1..n |-> StackAt(st, i)]
                      popped   == [m EXCEPT !.Stack = StackDrop(st, n)]
                      a == NewAllotment(portions)
                  IN  IF a.err THEN Halt(popped, EXIT_FAIL_INVALID)
                      ELSE Outcome(Push(popped, a.allotment), "next", 0)

\* the Monetarys of the shares pushed from the last to the first
RECURSIVE PushShares(_, _, _)
PushShares(st, asset, parts) ==
    IF parts = <<>> THEN st
    ELSE PushShares(Append(st, MonetaryV(asset, parts[Len(parts)])), asset,
                    SubSeq(parts, 1, Len(parts) - 1))

\* the shares are pushed from the first to the last
OpAllocForwardBug(m) ==
    IF ~CanPop(m.Stack, <<TYPE_ALLOTMENT, TYPE_MONETARY>>) THEN PopMismatch(m)
    ELSE LET allotment == StackAt(m.Stack, 1)
             monetary  == StackAt(m.Stack, 2)
         IN  Outcome([m EXCEPT !.Stack =
                         StackDrop(@, 2)
                         \o [i \in 1..Len(allotment.portions) |->
                               MonetaryV(monetary.Asset,
                                   Allocate(allotment.portions, monetary.Amount)[i])]],
                     "next", 0)

OpAlloc(m) ==
    IF ~CanPop(m.Stack, <<TYPE_ALLOTMENT, TYPE_MONETARY>>) THEN PopMismatch(m)
    ELSE LET allotment == StackAt(m.Stack, 1)
             monetary  == StackAt(m.Stack, 2)
         IN  Outcome([m EXCEPT !.Stack =
                         PushShares(StackDrop(@, 2), monetary.Asset,
                             Allocate(allotment.portions, monetary.Amount))],
                     "next", 0)

OpTakeAll(m) ==
    IF ~CanPop(m.Stack, <<TYPE_ASSET, TYPE_ACCOUNT>>) THEN PopMismatch(m)
    ELSE LET asset   == StackAt(m.Stack, 1).code
             account == StackAt(m.Stack, 2).name
             popped  == [m EXCEPT !.Stack = StackDrop(@, 2)]
             w == withdrawAll(m.Balances, account, asset)
         IN  IF w.err THEN Halt(popped, EXIT_FAIL_INVALID)
             ELSE Outcome(Push([popped EXCEPT !.Balances = w.bal], FundingV(w.funding)),
                          "next", 0)

OpTake(m) ==
    IF ~CanPop(m.Stack, <<TYPE_MONETARY, TYPE_FUNDING>>) THEN PopMismatch(m)
    ELSE LET mon     == StackAt(m.Stack, 1)
             funding == StackAt(m.Stack, 2).f
             popped  == [m EXCEPT !.Stack = StackDrop(@, 2)]
             t == Take(funding, mon.Amount)
         IN  IF funding.Asset # mon.Asset THEN Halt(popped, EXIT_FAIL_INVALID)
             ELSE IF t.err THEN Halt(popped, EXIT_FAIL_INSUFFICIENT_FUNDS)
             ELSE Outcome(Push(Push(popped, FundingV(t.remainder)), FundingV(t.taken)),
                          "next", 0)

OpTakeMax(m) ==
    IF ~CanPop(m.Stack, <<TYPE_MONETARY, TYPE_FUNDING>>) THEN PopMismatch(m)
    ELSE LET mon     == StackAt(m.Stack, 1)
             funding == StackAt(m.Stack, 2).f
             popped  == [m EXCEPT !.Stack = StackDrop(@, 2)]
             t == TakeMax(funding, mon.Amount)
         IN  IF funding.Asset # mon.Asset THEN Halt(popped, EXIT_FAIL_INVALID)
             ELSE Outcome(Push(Push(popped, FundingV(t.remainder)), FundingV(t.taken)),
                          "next", 0)

\* FUNDING_ASSEMBLE that concatenates the fundings in the order it popped them
OpFundingAssembleTopFirstBug(m) ==
    IF ~CanPop(m.Stack, <<TYPE_NUMBER>>) THEN PopMismatch(m)
    ELSE LET n  == StackTop(m.Stack).n
             st == StackPop(m.Stack)
         IN  IF n = 0 THEN Halt([m EXCEPT !.Stack = st], EXIT_FAIL_INVALID)
             ELSE IF ~CanPop(st, [k \in 1..n |-> TYPE_FUNDING]) THEN PopMismatch(m)
             ELSE LET fundings_rev == [k \in 1..n |-> StackAt(st, k).f]
                      first == fundings_rev[1]
                      bad == {k \in 2..n : fundings_rev[k].Asset # first.Asset}
                      c == ConcatAll(Funding(first.Asset, <<>>, FALSE), fundings_rev)
                  IN  IF bad # {} \/ c.err
                      THEN Halt([m EXCEPT !.Stack = StackDrop(st, n)], EXIT_FAIL_INVALID)
                      ELSE Outcome([m EXCEPT !.Stack =
                                       Append(StackDrop(st, n), FundingV(c.funding))],
                                   "next", 0)

OpFundingAssemble(m) ==
    IF ~CanPop(m.Stack, <<TYPE_NUMBER>>) THEN PopMismatch(m)
    ELSE LET n  == StackTop(m.Stack).n
             st == StackPop(m.Stack)
         IN  IF n = 0 THEN Halt([m EXCEPT !.Stack = st], EXIT_FAIL_INVALID)
             ELSE IF ~CanPop(st, [k \in 1..n |-> TYPE_FUNDING]) THEN PopMismatch(m)
             ELSE LET fundings_rev == [k \in 1..n |-> StackAt(st, k).f]
                      first == fundings_rev[1]
                      \* the first funding of another asset stops the pops
                      bad == {k \in 2..n : fundings_rev[k].Asset # first.Asset}
                      firstBad == CHOOSE k \in bad : \A j \in bad : k <= j
                      c == ConcatAll(Funding(first.Asset, <<>>, FALSE),
                                     [k \in 1..n |-> fundings_rev[n + 1 - k]])
                  IN  IF bad # {}
                      THEN Halt([m EXCEPT !.Stack = StackDrop(st, firstBad)],
                                EXIT_FAIL_INVALID)
                      ELSE IF c.err
                      THEN Halt([m EXCEPT !.Stack = StackDrop(st, n)], EXIT_FAIL_INVALID)
                      ELSE Outcome([m EXCEPT !.Stack =
                                       Append(StackDrop(st, n), FundingV(c.funding))],
                                   "next", 0)

OpFundingSum(m) ==
    IF ~CanPop(m.Stack, <<TYPE_FUNDING>>) THEN PopMismatch(m)
    ELSE LET funding == StackTop(m.Stack).f
             sum == Total(funding)
         IN  IF sum.err THEN Halt([m EXCEPT !.Stack = StackPop(@)], EXIT_FAIL_INVALID)
             ELSE Outcome(Push(m, MonetaryV(funding.Asset, sum.total)), "next", 0)

OpFundingReverse(m) ==
    IF ~CanPop(m.Stack, <<TYPE_FUNDING>>) THEN PopMismatch(m)
    ELSE LET r == Reverse(StackTop(m.Stack).f)
             popped == [m EXCEPT !.Stack = StackPop(@)]
         IN  IF r.err THEN Halt(popped, EXIT_FAIL_INVALID)
             ELSE Outcome(Push(popped, FundingV(r.funding)), "next", 0)

\* the funding is repaid and stays on the stack
OpRepayKeepsFundingBug(m) ==
    IF ~CanPop(m.Stack, <<TYPE_FUNDING>>) THEN PopMismatch(m)
    ELSE LET funding == StackTop(m.Stack).f
             r == repay(m.Balances, funding.Asset, funding.Parts)
         IN  IF r.panic THEN Panic(m)
             ELSE Outcome([m EXCEPT !.Balances = r.bal], "next", 0)

OpRepay(m) ==
    IF ~CanPop(m.Stack, <<TYPE_FUNDING>>) THEN PopMismatch(m)
    ELSE LET funding == StackTop(m.Stack).f
             r == repay(m.Balances, funding.Asset, funding.Parts)
             popped == [m EXCEPT !.Stack = StackPop(@)]
         IN  IF r.panic THEN Panic(popped)
             ELSE Outcome([popped EXCEPT !.Balances = r.bal], "next", 0)

OpSend(m) ==
    IF ~CanPop(m.Stack, <<TYPE_ACCOUNT, TYPE_FUNDING>>) THEN PopMismatch(m)
    ELSE LET dest    == StackAt(m.Stack, 1).name
             funding == StackAt(m.Stack, 2).f
         IN  Outcome([m EXCEPT !.Stack = StackDrop(@, 2),
                               !.Balances = credit(@, dest, funding),
                               !.Postings = @ \o SendPostings(funding.Parts, dest,
                                                              funding.Asset)],
                     "next", 0)

OpTxMeta(m) ==
    IF ~CanPop(m.Stack, <<TYPE_STRING, "any">>) THEN PopMismatch(m)
    ELSE LET k == StackAt(m.Stack, 1).str
             v == StackAt(m.Stack, 2)
         IN  Outcome([m EXCEPT !.Stack = StackDrop(@, 2),
                               !.TxMeta = (k :> v) @@ @], "next", 0)

\* the switch of Machine.tick on the opcode at m.P
DispatchOn(m, closed) ==
    LET op == Program.Instructions[m.P + 1]
    IN  CASE op = OP_APUSH -> OpApush(m)
          [] op = OP_IPUSH -> OpIpush(m)
          [] op = OP_BUMP -> OpBump(m)
          [] op = OP_IADD -> OpIadd(m)
          [] op = OP_ISUB -> OpIsub(m)
          [] op = OP_PRINT -> OpPrintOn(m, closed)
          [] op = OP_FAIL -> Halt(m, EXIT_FAIL)
          [] op = OP_ASSET -> OpAsset(m)
          [] op = OP_MONETARY_NEW -> OpMonetaryNew(m)
          [] op = OP_MONETARY_ADD -> OpMonetaryAdd(m)
          [] op = OP_MAKE_ALLOTMENT -> OpMakeAllotment(m)
          [] op = OP_ALLOC -> OpAlloc(m)
          [] op = OP_TAKE_ALL -> OpTakeAll(m)
          [] op = OP_TAKE -> OpTake(m)
          [] op = OP_TAKE_MAX -> OpTakeMax(m)
          [] op = OP_FUNDING_ASSEMBLE -> OpFundingAssemble(m)
          [] op = OP_FUNDING_SUM -> OpFundingSum(m)
          [] op = OP_FUNDING_REVERSE -> OpFundingReverse(m)
          [] op = OP_REPAY -> OpRepay(m)
          [] op = OP_SEND -> OpSend(m)
          [] op = OP_TX_META -> OpTxMeta(m)
          [] OTHER -> Halt(m, EXIT_FAIL_INVALID)

Dispatch(m) == DispatchOn(m, print_closed)

\* the end of Machine.tick after the switch: m.P += 1 and the end-of-program
\* test, unless the instruction d stands for returned from the switch
Advance(d) ==
    IF d.kind # "next" THEN d
    ELSE IF d.m.P + 1 >= Len(Program.Instructions)
    THEN Halt([d.m EXCEPT !.P = @ + 1], EXIT_OK)
    ELSE Outcome([d.m EXCEPT !.P = @ + 1], "next", 0)

\* Machine.tick: (finished, exit code) and the machine after the tick
tickOn(m, closed) ==
    IF m.P >= Len(Program.Instructions) THEN Panic(m)
    ELSE Advance(DispatchOn(m, closed))

tick(m) == tickOn(m, print_closed)

\* ------------------------------------------------------------------------
\* Machine.Execute
\* ------------------------------------------------------------------------

\* the error of the guard of Execute, "" when it lets the run start
ExecuteGuard ==
    IF Len(Resources) # Len(UnresolvedResources)
    THEN "resources haven't been initialized"
    ELSE IF BalancesNil THEN "balances haven't been initialized"
    ELSE ""

\* the errors Execute returns
ExecuteErrors ==
    {"resources haven't been initialized", "balances haven't been initialized"}

Panicked(call) == [call |-> call, err |-> "panic", exit_code |-> 0]

\* Execute returns r: the deferred close(m.print_chan) runs first, and the
\* close of a channel that is already closed panics
ExecuteReturns(r) ==
    IF print_closed
    THEN /\ crashed' = TRUE
         /\ ret' = Panicked("Execute")
         /\ UNCHANGED print_closed
    ELSE /\ print_closed' = TRUE
         /\ ret' = r
         /\ UNCHANGED crashed

\* the call of Execute up to the guard
Execute ==
    /\ CallerFree
    /\ IF ExecuteGuard # ""
       THEN /\ ExecuteReturns(Returned("Execute", ExecuteGuard, 0))
            /\ exec' = [exec EXCEPT !.pc = "refused", !.calls = @ + 1]
       ELSE /\ exec' = [exec EXCEPT !.pc = "running", !.calls = @ + 1,
                                     !.ready = (rb.pc = "closed"),
                                     !.initial = Balances]
            /\ UNCHANGED <<ret, print_closed, crashed>>
    /\ UNCHANGED <<algVars, Program, P, Vars, Resources, resolve_called, Balances,
                   BalancesNil, set_balance_called, Stack, Postings, TxMeta,
                   Printed, rr, md_stream, md_answers, rb, bal_stream,
                   bal_answers, effects>>

\* the machine fields a tick reads and writes
MachineState ==
    [P |-> P, Stack |-> Stack, Balances |-> Balances, Postings |-> Postings,
     TxMeta |-> TxMeta, Printed |-> Printed]

\* the loop of Execute after a tick with outcome t
ExecLoop(t) ==
    /\ P' = t.m.P
    /\ Stack' = t.m.Stack
    /\ Balances' = t.m.Balances
    /\ Postings' = t.m.Postings
    /\ TxMeta' = t.m.TxMeta
    /\ Printed' = t.m.Printed
    /\ CASE t.kind = "panic" ->
              /\ crashed' = TRUE
              /\ ret' = Panicked("Execute")
              /\ exec' = [exec EXCEPT !.pc = "panicked", !.ticks = @ + 1]
              /\ UNCHANGED print_closed
         [] t.kind = "halt" ->
              /\ exec' = [exec EXCEPT !.pc = "done", !.ticks = @ + 1]
              /\ ExecuteReturns(Returned("Execute", "",
                     IF t.m.Stack # <<>> THEN EXIT_FAIL_INVALID ELSE t.code))
         [] OTHER ->
              /\ exec' = [exec EXCEPT !.ticks = @ + 1]
              /\ UNCHANGED <<ret, print_closed, crashed>>

\* one pass of the loop of Execute: a tick, and the return when it finished
ExecTick ==
    /\ ~crashed
    /\ exec.pc = "running"
    /\ ExecLoop(tick(MachineState))
    /\ UNCHANGED <<algVars, Program, Vars, Resources, resolve_called, BalancesNil,
                   set_balance_called, rr, md_stream, md_answers, rb, bal_stream,
                   bal_answers, effects>>

\* ------------------------------------------------------------------------
\* The two specifications
\* ------------------------------------------------------------------------

\* the machine specification holds no fundings in the harness
NoFundings ==
    /\ scen = "machine"
    /\ heap = <<>>
    /\ refs = EmptyMap
    /\ amount = 0
    /\ errs = {}
    /\ made = EmptyMap

Init ==
    /\ NoFundings
    /\ \E p \in Programs : InitMachine(p)

Next ==
    \/ CallSetVars
    \/ ResolveResources
    \/ RRLoop
    \/ MdReceive
    \/ CallerAnswersMetadata
    \/ RRGot
    \/ ResolveBalances
    \/ RBStart
    \/ RBOuter
    \/ RBInner
    \/ BalReceive
    \/ CallerAnswersBalance
    \/ RBGot
    \/ Execute
    \/ ExecTick

Spec == Init /\ [][Next]_vars

\* the preparation of a machine: the caller sets the variables, starts the
\* two resolutions and serves their streams, and does not call Execute
NextResolution ==
    \/ CallSetVars
    \/ ResolveResources
    \/ RRLoop
    \/ MdReceive
    \/ CallerAnswersMetadata
    \/ RRGot
    \/ ResolveBalances
    \/ RBStart
    \/ RBOuter
    \/ RBInner
    \/ BalReceive
    \/ CallerAnswersBalance
    \/ RBGot

\* a fair schedule: a goroutine that can take its step takes it, and the
\* caller receives every message a stream offers and answers every request
\* it has received
Fairness ==
    /\ WF_vars(RRLoop) /\ WF_vars(RRGot)
    /\ WF_vars(RBStart) /\ WF_vars(RBOuter) /\ WF_vars(RBInner) /\ WF_vars(RBGot)
    /\ WF_vars(MdReceive) /\ WF_vars(CallerAnswersMetadata)
    /\ WF_vars(BalReceive) /\ WF_vars(CallerAnswersBalance)

SpecLive == Init /\ [][NextResolution]_vars /\ Fairness

\* the harness starts beside a machine that is constructed and never used
InitHarness ==
    /\ InitFunding
    /\ InitMachine(MetaProgram)

SpecFunding == InitHarness /\ [][NextFunding]_vars

\* ------------------------------------------------------------------------
\* Claims on the machine (checked under Spec)
\* ------------------------------------------------------------------------

RECURSIVE SumPostings(_)
SumPostings(ps) ==
    IF ps = <<>> THEN 0 ELSE Head(ps).Amount + SumPostings(Tail(ps))

IsFrom(account, asset, p) == p.Source = account /\ p.Asset = asset
IsTo(account, asset, p) == p.Destination = account /\ p.Asset = asset

\* what the postings take out of, and bring into, the balance of account in asset
PostedOut(account, asset) ==
    SumPostings(SelectSeq(Postings, LAMBDA p : IsFrom(account, asset, p)))
PostedIn(account, asset) ==
    SumPostings(SelectSeq(Postings, LAMBDA p : IsTo(account, asset, p)))

\* the machine runs the send program, its only run started after the balance
\* stream had ended, and that run has just returned
SendRunReturned ==
    /\ Program.Name = "send"
    /\ exec.calls = 1 /\ exec.ready /\ exec.pc = "done" /\ ~crashed
    /\ ret.call = "Execute"

SendSource == Program.Resources[2].Inner.name
SendMonetary == Program.Resources[1].Inner

\* the law of C5 on a returned run of the send program
SendConserves ==
    /\ ret = Returned("Execute", "", EXIT_OK)
    /\ SumPostings(Postings) = SendMonetary.Amount
    /\ \A account \in DOMAIN exec.initial :
          \A asset \in DOMAIN exec.initial[account] :
             Balances[account][asset]
                = exec.initial[account][asset] - PostedOut(account, asset)
                  + PostedIn(account, asset)

\* C5: running the program compiled for send [A T] (source = @s destination
\* = @d) with an initial balance B >= T of s in A ends with EXIT_OK, the
\* amounts of the postings sum to exactly T, and every tracked balance ends
\* at its initial value minus what it is source of plus what it is
\* destination of, also when s and d are one account.
C5_SendConservation ==
    (SendRunReturned
       /\ HasBalance(exec.initial, SendSource, SendMonetary.Asset)
       /\ exec.initial[SendSource][SendMonetary.Asset] >= SendMonetary.Amount)
    => SendConserves

\* C6: the preparation steps are one-shot and ordered: of the calls of each
\* of SetVars, ResolveResources and ResolveBalances at most one takes effect
\* (any further call of the two resolutions returns an error), and
\* ResolveBalances returns an error while a resource is unresolved.
C6_PreparationOneShot ==
    /\ effects.SetVars <= 1
    /\ effects.ResolveResources <= 1
    /\ effects.ResolveBalances <= 1
    /\ (ret.call = "ResolveBalances" /\ ret.err = "")
          => Len(Resources) = Len(UnresolvedResources)

\* C7: a call of Execute made while some resource is unresolved or the
\* balances map has not been created returns an error; no instruction has
\* been executed and no posting emitted.
C7_ExecuteRefusesUnprepared ==
    (ret.call = "Execute" /\ ExecuteGuard # "")
    => /\ ~crashed
       /\ ret.err \in ExecuteErrors /\ ret.exit_code = 0
       /\ exec.ticks = 0
       /\ P = 0 /\ Stack = <<>> /\ Postings = <<>>

\* the messages the resolution goroutine has emitted so far: those received
\* from the channel, and the one it is blocked sending
Emitted == md_stream \o (IF rr.pc = "send" THEN <<rr.msg>> ELSE <<>>)

IsRequest(msg) == msg.Error = ""
Requests == SelectSeq(Emitted, IsRequest)

IsMetadata(i) == UnresolvedResources[i + 1].kind = "Metadata"
MetadataIndices == {i \in 0..(Len(UnresolvedResources) - 1) : IsMetadata(i)}

\* Resources[i] is the value of table entry i (0-based)
IsValueOfEntry(i) ==
    LET res == UnresolvedResources[i + 1]
        val == Resources[i + 1]
    IN  CASE res.kind = "Constant" -> val = res.Inner
          [] res.kind = "Parameter" ->
                \E given \in VarChoicesFor(Program) :
                    /\ ~ParseVariables(Program, given).err
                    /\ val = given[res.Name]
          [] res.kind = "Metadata" ->
                /\ i \in DOMAIN md_answers
                /\ val = md_answers[i]
                /\ GetType(val) = res.Typ

\* C8: resources are resolved strictly in increasing index of the resource
\* table: requests are emitted for Metadata entries only, in increasing index
\* order, one for each Metadata entry resolved (one for every Metadata entry
\* once the table is resolved), each naming the resolved source account and
\* the key of its entry, and Resources is always a prefix of the table.
C8_ResolutionInIndexOrder ==
    /\ Len(Resources) <= Len(UnresolvedResources)
    /\ \A i \in 0..(Len(Resources) - 1) : IsValueOfEntry(i)
    /\ \A k \in 1..Len(Requests) :
          LET i == Requests[k].Response
          IN  /\ i \in MetadataIndices
              /\ i <= Len(Resources)
              /\ Requests[k].Key = UnresolvedResources[i + 1].Key
              /\ Requests[k].Account
                    = Resources[UnresolvedResources[i + 1].SourceAccount + 1].name
    /\ \A k \in 1..(Len(Requests) - 1) :
          Requests[k].Response < Requests[k + 1].Response
    /\ \A i \in MetadataIndices :
          i < Len(Resources) => \E k \in 1..Len(Requests) : Requests[k].Response = i
    /\ Len(Resources) = Len(UnresolvedResources)
          => Len(Requests) = Cardinality(MetadataIndices)

\* a table of several Metadata entries resolved to its end
C8_Witness ==
    /\ Cardinality(MetadataIndices) >= 2
    /\ Len(Resources) = Len(UnresolvedResources)
    /\ rr.pc = "closed"
    /\ Len(Requests) = 2

\* the source account of Metadata entry i cannot be asked: its index is not
\* below i, or the resource resolved at that index is no account
BadSource(i) ==
    LET src == UnresolvedResources[i + 1].SourceAccount
    IN  \/ src >= i
        \/ src < Len(Resources) /\ GetType(Resources[src + 1]) # TYPE_ACCOUNT

\* the resolution goroutine has ended on an Error message, emitted or received
EndedOnError ==
    \/ rr.pc = "send" /\ rr.msg.Error # ""
    \/ rr.pc = "closed" /\ md_stream # <<>> /\ md_stream[Len(md_stream)].Error # ""

\* C9: a MetadataRequest is emitted for a Metadata entry only if its
\* source_account index is below its own and the resource resolved there is an
\* Account; otherwise, once the loop has reached the entry, an Error message
\* is emitted, the entry is never appended and nothing after it is resolved.
C9_RequestNeedsResolvedAccount ==
    /\ \A k \in 1..Len(Requests) : ~BadSource(Requests[k].Response)
    /\ \A i \in MetadataIndices :
          BadSource(i)
          => /\ Len(Resources) <= i
             /\ (Len(Resources) = i /\ rr.pc \notin {"idle", "loop"}) => EndedOnError

\* the loop reached an entry whose source is not resolved before it, and one
\* whose source is no account
C9_Witness ==
    /\ EndedOnError
    /\ IsMetadata(Len(Resources))
    /\ BadSource(Len(Resources))
    /\ Program.Name \in {"forwardmeta", "notaccountmeta"}
    /\ md_stream # <<>>

\* the value answered for Metadata entry i is nil or not of the declared type
BadAnswer(i) ==
    /\ i \in DOMAIN md_answers
    /\ \/ md_answers[i] = NilV
       \/ GetType(md_answers[i]) # UnresolvedResources[i + 1].Typ

\* C10: when the value answered to a MetadataRequest is nil or not of the
\* declared type, an Error message is emitted, the value is never stored, no
\* later resource is resolved, and Execute is refused from then on: it runs
\* no instruction, emits no posting and returns no exit code.
C10_BadAnswerFailsResolution ==
    \A i \in MetadataIndices :
       BadAnswer(i)
       => /\ Len(Resources) = i
          /\ rr.pc = "got" \/ EndedOnError
          /\ \A k \in 1..Len(Requests) : Requests[k].Response <= i
          /\ exec.ticks = 0 /\ exec.pc # "running" /\ Postings = <<>>
          /\ ExecuteGuard # ""
          /\ ret.call = "Execute" => ret.err # "" /\ ret.exit_code = 0

\* an ill-typed answer was given, the Error was received, Execute was refused
C10_Witness ==
    /\ \E i \in MetadataIndices : BadAnswer(i) /\ md_answers[i] # NilV
    /\ rr.pc = "closed"
    /\ ret = Returned("Execute", "resources haven't been initialized", 0)

\* the messages the balance goroutine has emitted so far
BalEmitted == bal_stream \o (IF rb.pc = "send" THEN <<rb.msg>> ELSE <<>>)

\* in the sequence of messages an Error can only be the last one
ErrorIsLast(msgs) == \A k \in 1..Len(msgs) : msgs[k].Error # "" => k = Len(msgs)

\* C11: on the metadata stream and on the balance stream a message carrying
\* an Error is the last message: once it is received the goroutine has
\* returned and the stream is closed, and nothing is emitted after it.
C11_ErrorEndsStream ==
    /\ ErrorIsLast(Emitted)
    /\ ErrorIsLast(BalEmitted)
    /\ (md_stream # <<>> /\ md_stream[Len(md_stream)].Error # "") => rr.pc = "closed"
    /\ (bal_stream # <<>> /\ bal_stream[Len(bal_stream)].Error # "") => rb.pc = "closed"

\* the balance stream carried a request and then an Error, and the caller
\* went on to call Execute
C11_Witness ==
    /\ Len(bal_stream) = 2
    /\ bal_stream[1].Error = "" /\ bal_stream[2].Error # ""
    /\ rb.pc = "closed"
    /\ ret.call = "Execute"

\* the (account address, asset address) entries of needed_balances
NeededEntries ==
    {<<a, c>> : a \in DOMAIN Program.NeededBalances, c \in 0..(Len(Resources))}
    \cap {e \in (DOMAIN Program.NeededBalances) \X (0..Len(Resources)) :
             e[2] \in Program.NeededBalances[e[1]]}

\* the entries a request has been emitted for, in order: those answered, and
\* the one whose request is being sent or awaits its answer
Asked ==
    [k \in 1..Len(bal_answers) |-> <<bal_answers[k].addr, bal_answers[k].assetAddr>>]
    \o (IF rb.pc \in {"send", "recv"} /\ rb.msg.Error = ""
        THEN <<<<rb.addr, rb.assetAddr>>>> ELSE <<>>)

\* the balance stream is closed, it carried no Error, and no instruction of
\* the program has run yet
BalancesResolved ==
    /\ rb.pc = "closed"
    /\ \A k \in 1..Len(bal_stream) : bal_stream[k].Error = ""
    /\ exec.ticks = 0

\* every request is for an entry of needed_balances whose account is not
\* world, no entry is asked for twice, and a stream closed without Error has
\* asked for every such entry
OneRequestPerEntry ==
    /\ \A k \in 1..Len(Asked) :
          /\ Asked[k] \in NeededEntries
          /\ Resources[Asked[k][1] + 1] # AccountV(WORLD)
          /\ \A j \in 1..Len(Asked) : Asked[j] = Asked[k] => j = k
    /\ \A k \in 1..Len(BalEmitted) : BalEmitted[k].Account # WORLD
    /\ BalancesResolved
          => \A e \in NeededEntries :
                Resources[e[1] + 1] # AccountV(WORLD)
                => \E k \in 1..Len(Asked) : Asked[k] = e

\* C12: balance resolution emits exactly one BalanceRequest per entry of
\* needed_balances whose account is not world and none for world; when the
\* stream closes without an Error, Balances[account][asset] is the value
\* answered, for every request that was emitted, also when two account
\* addresses resolve to one account name.
C12_BalancesHoldAnswers ==
    /\ OneRequestPerEntry
    /\ BalancesResolved
          => \A k \in 1..Len(bal_answers) :
                /\ HasBalance(Balances, bal_answers[k].Account, bal_answers[k].Asset)
                /\ Balances[bal_answers[k].Account][bal_answers[k].Asset]
                      = bal_answers[k].val

BalRequests == SelectSeq(BalEmitted, IsRequest)

\* the requests of a stream that have no response yet
MdOutstanding == Len(Requests) - Cardinality(DOMAIN md_answers)
BalOutstanding == Len(BalRequests) - Len(bal_answers)

\* C13: on each resolution stream at most one request is outstanding at any
\* time: while a request has no response the background task emits no further
\* message and does not close the stream, so a request or an Error that
\* follows it, and the close, find every earlier request answered.
C13_OneOutstandingRequest ==
    /\ MdOutstanding \in {0, 1}
    /\ BalOutstanding \in {0, 1}
    /\ MdOutstanding = 1
          => /\ rr.pc \in {"send", "recv"}
             /\ Emitted[Len(Emitted)] = Requests[Len(Requests)]
    /\ BalOutstanding = 1
          => /\ rb.pc \in {"send", "recv"}
             /\ BalEmitted[Len(BalEmitted)] = BalRequests[Len(BalRequests)]

C13_Witness ==
    /\ Len(bal_answers) = 1
    /\ Len(BalRequests) = 2
    /\ rb.pc = "recv"

\* a closed metadata stream has resolved every entry or ends with an Error
MdClosedFor ==
    rr.pc = "closed"
       => \/ Len(Resources) = Len(UnresolvedResources)
          \/ (md_stream # <<>> /\ md_stream[Len(md_stream)].Error # "")

\* a closed balance stream has every request answered, or ends with an Error
BalClosedFor ==
    rb.pc = "closed"
       => \/ /\ BalOutstanding = 0
             /\ \A k \in 1..Len(bal_stream) : bal_stream[k].Error = ""
          \/ (bal_stream # <<>> /\ bal_stream[Len(bal_stream)].Error # "")

\* C14: when the caller receives every message of a resolution stream and
\* answers every request with a value, the background task of
\* ResolveResources, and that of ResolveBalances, eventually closes its
\* stream and terminates, after all requests were answered or one Error was
\* emitted.
C14_ResolutionTerminates ==
    /\ resolve_called ~> (rr.pc = "closed")
    /\ set_balance_called ~> (rb.pc = "closed")
    /\ [](MdClosedFor /\ BalClosedFor)

C14_Witness ==
    /\ rr.pc = "closed"
    /\ rb.pc = "closed"
    /\ Len(bal_answers) = 2
    /\ \A k \in 1..Len(bal_stream) : bal_stream[k].Error = ""

\* the postings a SEND of the parts to dest is to append: none for a part of
\* amount 0, none for a part of world sent to world
RECURSIVE ClaimedPostings(_, _, _)
ClaimedPostings(parts, dest, asset) ==
    IF parts = <<>> THEN <<>>
    ELSE LET part == Head(parts)
             rest == ClaimedPostings(Tail(parts), dest, asset)
         IN  IF part.Amount = 0 \/ (part.Account = WORLD /\ dest = WORLD) THEN rest
             ELSE <<Posting(part.Account, dest, asset, part.Amount)>> \o rest

\* the step is a tick of Execute that runs a SEND on an account and a funding
SendFires ==
    /\ exec.pc = "running"
    /\ exec'.ticks = exec.ticks + 1
    /\ P < Len(Program.Instructions)
    /\ Program.Instructions[P + 1] = OP_SEND
    /\ CanPop(Stack, <<TYPE_ACCOUNT, TYPE_FUNDING>>)

IsPrefix(s, t) == Len(s) <= Len(t) /\ s = SubSeq(t, 1, Len(s))

\* C15: SEND of funding f to dest appends, in f's part order, one posting
\* (part.account, dest, f.asset, part.amount) for each part of non-zero amount
\* that is not a world-to-world transfer, and nothing for the other parts;
\* no step removes or reorders a posting already emitted.
C15_SendAppendsPostings ==
    [][/\ IsPrefix(Postings, Postings')
       /\ SendFires
             => Postings' = Postings
                   \o ClaimedPostings(StackAt(Stack, 2).f.Parts,
                                      StackAt(Stack, 1).name,
                                      StackAt(Stack, 2).f.Asset)]_vars

\* the sum of the amounts of the parts, as a natural number
RECURSIVE PlainTotal(_)
PlainTotal(parts) ==
    IF parts = <<>> THEN 0 ELSE Head(parts).Amount + PlainTotal(Tail(parts))

\* the step is a tick of Execute that runs a TAKE of more than the total of a
\* finite funding of the same asset
TakeShortFires ==
    /\ exec.pc = "running"
    /\ exec'.ticks = exec.ticks + 1
    /\ P < Len(Program.Instructions)
    /\ Program.Instructions[P + 1] = OP_TAKE
    /\ CanPop(Stack, <<TYPE_MONETARY, TYPE_FUNDING>>)
    /\ StackAt(Stack, 2).f.Asset = StackAt(Stack, 1).Asset
    /\ ~StackAt(Stack, 2).f.Infinite
    /\ StackAt(Stack, 1).Amount > PlainTotal(StackAt(Stack, 2).f.Parts)

\* C16: a TAKE of an amount larger than the total of a finite funding of the
\* same asset halts the execution at that instruction with exit code
\* EXIT_FAIL_INSUFFICIENT_FUNDS; the instruction emits no posting and changes
\* no balance, and no later instruction runs.
C16_TakeShortfallHalts ==
    [][TakeShortFires
          => /\ ret' = Returned("Execute", "", EXIT_FAIL_INSUFFICIENT_FUNDS)
             /\ exec'.pc = "done"
             /\ P' = P
             /\ Postings' = Postings
             /\ Balances' = Balances]_vars

\* the step is the tick that ends a run of Execute
ExecEnds == exec.pc = "running" /\ exec'.pc \in {"done", "panicked"}

ExitCode(code) == Returned("Execute", "", code)

\* C17: the exit code of Execute follows the halting rule: a FAIL halts with
\* EXIT_FAIL; running off the end of the program with an empty stack halts
\* with EXIT_OK, for every program, the empty one included; a halt with a
\* non-empty stack returns EXIT_FAIL_INVALID whatever instruction halted.
C17_ExitCodeRule ==
    [][ExecEnds
          => /\ (exec'.pc = "done" /\ Stack' # <<>>)
                   => ret' = ExitCode(EXIT_FAIL_INVALID)
             /\ (Stack' = <<>> /\ P' >= Len(Program.Instructions))
                   => ret' = ExitCode(EXIT_OK)
             /\ (Stack' = <<>> /\ P < Len(Program.Instructions)
                   /\ Program.Instructions[P + 1] = OP_FAIL)
                   => ret' = ExitCode(EXIT_FAIL)]_vars

\* the least element of a non-empty set of addresses
Least(S) == CHOOSE x \in S : \A y \in S : x <= y

\* the balance answered to the request of the entry (a, c)
AnswerOf(a, c) ==
    LET k == CHOOSE j \in 1..Len(bal_answers) :
                 bal_answers[j].addr = a /\ bal_answers[j].assetAddr = c
    IN  bal_answers[k].val

\* the balance maps ResolveBalances builds from the answers when its two
\* loops visit the addresses in ascending order (one of the orders a range
\* over a Go map can take)
RECURSIVE AscendingAssets(_, _, _)
AscendingAssets(a, cs, acc) ==
    IF cs = {} THEN acc
    ELSE LET c == Least(cs)
         IN  AscendingAssets(a, cs \ {c},
                 (GetAsset(Resources[c + 1]) :> AnswerOf(a, c)) @@ acc)

RECURSIVE AscendingBalances(_, _)
AscendingBalances(as, bal) ==
    IF as = {} THEN bal
    ELSE LET a == Least(as)
             name == Resources[a + 1].name
         IN  AscendingBalances(as \ {a},
                 IF name = WORLD THEN bal
                 ELSE (name :> AscendingAssets(a, Program.NeededBalances[a], EmptyMap))
                      @@ bal)

\* the run of the loop of Execute from machine state m, print_chan open, to
\* the tick that ends it
RECURSIVE RunTicks(_)
RunStep(t) == IF t.kind = "next" THEN RunTicks(t.m) ELSE t
RunTicks(m) == RunStep(tickOn(m, FALSE))

\* the run of a second machine built from the same program, with the same
\* resolved resources and the same answers, whose Execute is its first call
ReferenceRun ==
    RunTicks([P |-> 0, Stack |-> <<>>,
              Balances |-> AscendingBalances(DOMAIN Program.NeededBalances, EmptyMap),
              Postings |-> <<>>, TxMeta |-> EmptyMap, Printed |-> <<>>])

SameOutcome(r) ==
    /\ Postings = r.m.Postings
    /\ TxMeta = r.m.TxMeta
    /\ Balances = r.m.Balances
    /\ ret = IF r.kind = "panic" THEN Panicked("Execute")
             ELSE ExitCode(IF r.m.Stack # <<>> THEN EXIT_FAIL_INVALID ELSE r.code)

\* Execute has ended on a machine whose balance stream had closed, without
\* an Error, before Execute was called
ExecutedPrepared ==
    /\ ret.call = "Execute"
    /\ exec.pc \in {"done", "panicked"}
    /\ exec.ready
    /\ \A k \in 1..Len(bal_stream) : bal_stream[k].Error = ""

\* C18: execution is deterministic: a machine that has executed ends with
\* the Postings, TxMeta, final Balances and exit code of any other machine
\* built from the same program with the same resolved resources and the
\* same answered balances.
C18_Deterministic == ExecutedPrepared => SameOutcome(ReferenceRun)

\* the step is a tick of Execute that runs instruction op
Runs(op) ==
    /\ exec.pc = "running"
    /\ exec'.ticks = exec.ticks + 1
    /\ P < Len(Program.Instructions)
    /\ Program.Instructions[P + 1] = op

\* every part of the funding is a part of world
OnlyWorldParts(f) == \A k \in 1..Len(f.Parts) : f.Parts[k].Account = WORLD

\* C19: in every reachable state the balances map has no entry for the
\* account world; a SEND to world, a REPAY of parts of world and a TAKE_ALL
\* on world change no balance.
C19_NoWorldBalance ==
    /\ [](WORLD \notin DOMAIN Balances)
    /\ [][/\ (Runs(OP_SEND) /\ CanPop(Stack, <<TYPE_ACCOUNT, TYPE_FUNDING>>)
                /\ StackAt(Stack, 1).name = WORLD)
             => Balances' = Balances
          /\ (Runs(OP_REPAY) /\ CanPop(Stack, <<TYPE_FUNDING>>)
                /\ OnlyWorldParts(StackTop(Stack).f))
             => Balances' = Balances
          /\ (Runs(OP_TAKE_ALL) /\ CanPop(Stack, <<TYPE_ASSET, TYPE_ACCOUNT>>)
                /\ StackAt(Stack, 2).name = WORLD)
             => Balances' = Balances]_vars

C19_Witness ==
    /\ Program = WorldProgram
    /\ ret = ExitCode(EXIT_OK)
    /\ Postings = <<Posting(WORLD, WORLD, "COIN", 1)>>
    /\ DOMAIN Balances = {"alice"}

\* the step is a tick of Execute that runs ALLOC on an allotment and a Monetary
AllocFires ==
    /\ Runs(OP_ALLOC)
    /\ CanPop(Stack, <<TYPE_ALLOTMENT, TYPE_MONETARY>>)

\* the amounts of the n topmost values of the stack, the topmost first
TopAmounts(st, n) == [i \in 1..n |-> StackAt(st, i).Amount]

\* C20: ALLOC on Monetary [A, T] and an allotment of n portions pushes
\* exactly n Monetarys of asset A, of non-negative amounts that sum to
\* exactly T, in reverse order: the share of the first portion is on top of
\* the stack.
C20_AllocPushesShares ==
    [][AllocFires
          => LET n == Len(StackAt(Stack, 1).portions)
                 A == StackAt(Stack, 2).Asset
                 T == StackAt(Stack, 2).Amount
             IN  /\ Len(Stack') = Len(Stack) - 2 + n
                 /\ SubSeq(Stack', 1, Len(Stack) - 2) = StackDrop(Stack, 2)
                 /\ \A i \in 1..n :
                       /\ GetType(StackAt(Stack', i)) = TYPE_MONETARY
                       /\ StackAt(Stack', i).Asset = A
                       /\ StackAt(Stack', i).Amount \in 0..MaxUint
                 /\ SumSeq(TopAmounts(Stack', n)) = T
                 /\ TopAmounts(Stack', n)
                       = Allocate(StackAt(Stack, 1).portions, T)]_vars

C20_Witness ==
    /\ Program = AllocProgram(MaxUint, Fees)
    /\ ret = ExitCode(EXIT_FAIL_INVALID)
    /\ Len(Stack) = 3
    /\ TopAmounts(Stack, 3) = Allocate(Fees, MaxUint)
    /\ SumSeq(TopAmounts(Stack, 3)) = MaxUint

\* the programs the compiler tests give for a plain send, a send-all, a
\* destination allotment and an ordered destination
CompiledSends == {"send", "sendall", "allotment", "inorder"}

\* the amount and the asset the send takes from its source
SendNeeds ==
    LET inner == Program.Resources[1].Inner
    IN  [asset  |-> GetAsset(inner),
         amount |-> IF GetType(inner) = TYPE_MONETARY THEN inner.Amount ELSE 0]

\* the balances the run started with hold what the send takes
SufficientSource ==
    \/ SendSource = WORLD
    \/ /\ HasBalance(exec.initial, SendSource, SendNeeds.asset)
       /\ exec.initial[SendSource][SendNeeds.asset] >= SendNeeds.amount

\* the first call of Execute on the machine has run a compiled send, from
\* the empty stack and a sufficient source balance, and has ended
CompiledSendRan ==
    /\ Program.Name \in CompiledSends
    /\ exec.calls = 1
    /\ exec.pc \in {"done", "panicked"}
    /\ ret.call = "Execute"
    /\ SufficientSource

\* C21: each compiled send leaves the stack empty: the instruction sequences
\* of a plain send, a send-all, a destination allotment and an ordered
\* destination, run from the empty stack by the first Execute of a machine
\* whose source balance is sufficient, end with an empty stack and exit code
\* EXIT_OK.
C21_SendLeavesStackEmpty ==
    CompiledSendRan => (Stack = <<>> /\ ret = ExitCode(EXIT_OK))

C21_Witness ==
    /\ CompiledSendRan
    /\ Program = DestinationInOrderProgram
    /\ Len(Postings) = 2
    /\ Stack = <<>>

\* the call of the harness took from an infinite funding
InfiniteTakeRan ==
    /\ scen \in {"take", "takemax"}
    /\ Has("taken")
    /\ Val("f").Infinite

\* C22: Take(f, m) and TakeMax(f, m) on an infinite funding f never fail: the
\* finite parts of f are consumed left to right first, an unmet amount u > 0
\* is appended to taken as a last part (world, u) so that the amounts of
\* taken sum to m, taken is never marked infinite and remainder always is.
C22_InfiniteTakeNeverFails ==
    InfiniteTakeRan
    => LET fp == made["f"].Parts
           tp == Val("taken").Parts
           u  == amount - PlainTotal(fp)
           k  == IF u > 0 THEN Len(tp) - 1 ELSE Len(tp)
       IN  /\ "taken" \notin errs
           /\ k >= 0 /\ k <= Len(fp)
           /\ \A i \in 1..k :
                  /\ tp[i].Account = fp[i].Account
                  /\ tp[i].Amount <= fp[i].Amount
                  /\ i < k => tp[i] = fp[i]
           /\ u > 0 => /\ k = Len(fp)
                       /\ SubSeq(tp, 1, k) = fp
                       /\ tp[Len(tp)] = FundingPart(WORLD, u)
           /\ PlainTotal(tp) = amount
           /\ ~Val("taken").Infinite
           /\ Val("remainder").Infinite

\* an infinite funding with finite parts, asked for more than they hold
C22_Witness ==
    /\ InfiniteTakeRan
    /\ Len(made["f"].Parts) = 2
    /\ PlainTotal(made["f"].Parts) > 0
    /\ amount > PlainTotal(made["f"].Parts)
    /\ Len(Val("taken").Parts) = 3
    /\ Val("taken").Parts[3].Account = WORLD

\* f.Concat(g) of the harness ran on operands of any asset, finite or not,
\* before any other Concat has written into the parts of f
ConcatAnyRan == scen = "concatany" /\ Has("fg") /\ ~Has("f_gh")

\* fp followed by gp, the last part of fp and the first of gp merged into one
\* when they name the same account
Joined(fp, gp) ==
    IF fp # <<>> /\ gp # <<>> /\ fp[Len(fp)].Account = gp[1].Account
    THEN SubSeq(fp, 1, Len(fp) - 1)
         \o <<FundingPart(gp[1].Account, fp[Len(fp)].Amount + gp[1].Amount)>>
         \o Tail(gp)
    ELSE fp \o gp

\* C23 (as stated): Concat(f, g) of two same-asset fundings where either f or
\* g is infinite returns an infinite funding whose parts are exactly f.parts,
\* g.parts being dropped; Concat of fundings with different assets returns an
\* error.
C23_ConcatInfiniteDropsOther ==
    ConcatAnyRan
    => /\ made["f"].Asset # made["g"].Asset => "fg" \in errs
       /\ (made["f"].Asset = made["g"].Asset
              /\ (made["f"].Infinite \/ made["g"].Infinite))
          => /\ "fg" \notin errs
             /\ made["fg"].Infinite
             /\ made["fg"].Parts = made["f"].Parts

\* C23 (amended): Concat(f, g) of two same-asset fundings where either f or g
\* is infinite returns an infinite funding; its parts are exactly f.parts,
\* g.parts being dropped, when f is infinite, and f.parts followed by g.parts
\* (adjacent parts of one account merged) when only g is infinite; Concat of
\* fundings with different assets returns an error.
C23_ConcatInfiniteAmended ==
    ConcatAnyRan
    => /\ made["f"].Asset # made["g"].Asset => "fg" \in errs
       /\ (made["f"].Asset = made["g"].Asset
              /\ (made["f"].Infinite \/ made["g"].Infinite))
          => /\ "fg" \notin errs
             /\ made["fg"].Infinite
             /\ made["fg"].Asset = made["f"].Asset
             /\ made["fg"].Parts = IF made["f"].Infinite
                                   THEN made["f"].Parts
                                   ELSE Joined(made["f"].Parts, made["g"].Parts)

\* a finite funding concatenated with an infinite one that has parts
C23_Witness ==
    /\ ConcatAnyRan
    /\ "fg" \notin errs
    /\ ~made["f"].Infinite /\ made["g"].Infinite
    /\ made["f"].Parts # <<>> /\ made["g"].Parts # <<>>
    /\ made["fg"].Infinite
    /\ Len(made["fg"].Parts) > Len(made["f"].Parts)

\* FUNDING_ASSEMBLE runs on a stack that holds its count
AssembleFires ==
    /\ Runs(OP_FUNDING_ASSEMBLE)
    /\ CanPop(Stack, <<TYPE_NUMBER>>)

\* the n fundings below the count, the topmost first
AssembleOperands ==
    LET n == StackAt(Stack, 1).n
    IN  [k \in 1..n |-> StackAt(StackPop(Stack), k).f]

\* Concat folded from the left over a non-empty sequence of fundings
LeftFold(fundings) == ConcatAll(Head(fundings), Tail(fundings))

\* the sequence fundings in reverse
Backwards(fundings) ==
    [k \in 1..Len(fundings) |-> fundings[Len(fundings) + 1 - k]]

\* the tick about to run halts the machine with EXIT_FAIL_INVALID
TickHaltsInvalid ==
    /\ tick(MachineState).kind = "halt"
    /\ tick(MachineState).code = EXIT_FAIL_INVALID
    /\ exec'.pc \in {"done", "panicked"}

\* FUNDING_ASSEMBLE on count n and n fundings: halts on n = 0 and on
\* different assets, else replaces them by the left fold of order(operands)
AssembleRule(order(_)) ==
    AssembleFires
    => LET n  == StackAt(Stack, 1).n
           st == StackPop(Stack)
       IN  /\ n = 0 => TickHaltsInvalid
           /\ (n > 0 /\ CanPop(st, [k \in 1..n |-> TYPE_FUNDING]))
              => IF \E k \in 1..n : AssembleOperands[k].Asset # AssembleOperands[1].Asset
                 THEN TickHaltsInvalid
                 ELSE /\ ~LeftFold(order(AssembleOperands)).err
                      /\ Stack' = Append(StackDrop(st, n),
                                         FundingV(LeftFold(order(AssembleOperands)).funding))

SameOrder(fundings) == fundings

InvalidOperandFires ==
    /\ exec.pc = "running"
    /\ exec'.ticks = exec.ticks + 1
    /\ P < Len(Program.Instructions)
    /\ LET op == Program.Instructions[P + 1]
       IN  \/ /\ op = OP_APUSH
              /\ P + 3 <= Len(Program.Instructions)
              /\ LittleEndian(Operand(MachineState, 1, 3)) >= Len(Resources)
           \/ op = OP_UNKNOWN
           \/ /\ op = OP_ASSET
              /\ CanPop(Stack, <<"any">>)
              /\ ~HasAsset(StackAt(Stack, 1))
           \/ /\ op \in {OP_TAKE, OP_TAKE_MAX}
              /\ CanPop(Stack, <<TYPE_MONETARY, TYPE_FUNDING>>)
              /\ StackAt(Stack, 2).f.Asset # StackAt(Stack, 1).Asset
           \/ /\ op = OP_MONETARY_ADD
              /\ CanPop(Stack, <<TYPE_MONETARY, TYPE_MONETARY>>)
              /\ StackAt(Stack, 2).Asset # StackAt(Stack, 1).Asset

\* C25: an instruction with an invalid operand halts the machine with
\* EXIT_FAIL_INVALID: APUSH with an address outside the resolved resource
\* table, an unknown opcode byte, ASSET on a value that is not an
\* Asset/Monetary/Funding, and TAKE, TAKE_MAX or MONETARY_ADD on operands of
\* different assets.
C25_InvalidOperandHalts ==
    [][InvalidOperandFires => TickHaltsInvalid]_vars

\* ISUB runs on a stack that holds its two Numbers
IsubFires ==
    /\ Runs(OP_ISUB)
    /\ CanPop(Stack, <<TYPE_NUMBER, TYPE_NUMBER>>)

FailureCodes == {EXIT_FAIL, EXIT_FAIL_INVALID, EXIT_FAIL_INSUFFICIENT_FUNDS}

\* C26: ISUB pops b then a and pushes a - b when a >= b; when a < b the
\* subtraction fails (the machine halts with a failure exit code) and no
\* Number is pushed.
C26_IsubFailsWhenNegative ==
    [][IsubFires
          => LET b == StackAt(Stack, 1).n
                 a == StackAt(Stack, 2).n
             IN  IF a >= b
                 THEN Stack' = Append(StackDrop(Stack, 2), NumberV(a - b))
                 ELSE /\ tick(MachineState).kind = "halt"
                      /\ tick(MachineState).code \in FailureCodes
                      /\ exec'.pc \in {"done", "panicked"}
                      /\ Len(Stack') <= Len(Stack) - 2]_vars

\* the amounts of the parts of account among parts, added up
AmountOf(account, parts) ==
    PlainTotal(SelectSeq(parts, LAMBDA part : part.Account = account))

\* a tick runs whose unsigned sum exceeds the word: IADD, MONETARY_ADD,
\* FUNDING_SUM, the credit of SEND or the credit of REPAY
OverflowFires ==
    \/ /\ Runs(OP_IADD)
       /\ CanPop(Stack, <<TYPE_NUMBER, TYPE_NUMBER>>)
       /\ StackAt(Stack, 2).n + StackAt(Stack, 1).n > MaxUint
    \/ /\ Runs(OP_MONETARY_ADD)
       /\ CanPop(Stack, <<TYPE_MONETARY, TYPE_MONETARY>>)
       /\ StackAt(Stack, 2).Asset = StackAt(Stack, 1).Asset
       /\ StackAt(Stack, 2).Amount + StackAt(Stack, 1).Amount > MaxUint
    \/ /\ Runs(OP_FUNDING_SUM)
       /\ CanPop(Stack, <<TYPE_FUNDING>>)
       /\ ~StackAt(Stack, 1).f.Infinite
       /\ PlainTotal(StackAt(Stack, 1).f.Parts) > MaxUint
    \/ /\ Runs(OP_SEND)
       /\ CanPop(Stack, <<TYPE_ACCOUNT, TYPE_FUNDING>>)
       /\ LET dest == StackAt(Stack, 1).name
              funding == StackAt(Stack, 2).f
          IN  /\ dest # WORLD
              /\ HasBalance(Balances, dest, funding.Asset)
              /\ Balances[dest][funding.Asset] + PlainTotal(funding.Parts) > MaxUint
    \/ /\ Runs(OP_REPAY)
       /\ CanPop(Stack, <<TYPE_FUNDING>>)
       /\ LET funding == StackAt(Stack, 1).f
          IN  \E account \in DOMAIN Balances \ {WORLD} :
                 /\ HasBalance(Balances, account, funding.Asset)
                 /\ Balances[account][funding.Asset]
                       + AmountOf(account, funding.Parts) > MaxUint

\* C27: any unsigned overflow during execution halts the machine with
\* EXIT_FAIL_INVALID instead of wrapping: IADD and MONETARY_ADD whose sum
\* exceeds the largest word, FUNDING_SUM on a funding whose part amounts sum
\* above it, and a SEND or REPAY credit that would raise a balance above it.
C27_OverflowHalts ==
    [][OverflowFires => TickHaltsInvalid]_vars

\* a tick of Execute runs
TickRuns ==
    /\ exec.pc = "running"
    /\ exec'.ticks = exec.ticks + 1

\* the tick about to run executes its instruction to the end: it neither
\* halts the machine with a failure nor panics
TickCompletes ==
    \/ tick(MachineState).kind = "next"
    \/ tick(MachineState).kind = "halt" /\ tick(MachineState).code = EXIT_OK

\* the bytes an instruction takes: the opcode and its operand bytes
Width(op) == IF op = OP_IPUSH THEN 9 ELSE IF op = OP_APUSH THEN 3 ELSE 1

\* C28: the program counter never decreases and advances by exactly 1 +
\* operand bytes per executed instruction (9 for IPUSH, 3 for APUSH, 1 for
\* every other opcode); consequently Execute halts after at most
\* len(instructions) ticks for every program.
C28_PcAdvancesAndHalts ==
    [][TickRuns
          => /\ P' >= P
             /\ TickCompletes => P' = P + Width(Program.Instructions[P + 1])
             /\ exec.calls = 1 => exec'.ticks <= Len(Program.Instructions)]_vars

\* TAKE_ALL runs on a stack that holds its Asset and Account
TakeAllFires ==
    /\ Runs(OP_TAKE_ALL)
    /\ CanPop(Stack, <<TYPE_ASSET, TYPE_ACCOUNT>>)

MissingBalanceFires ==
    /\ TakeAllFires
    /\ StackAt(Stack, 2).name # WORLD
    /\ ~HasBalance(Balances, StackAt(Stack, 2).name, StackAt(Stack, 1).code)

\* C30: executing a send whose source account has no balance entry for the
\* asset is reported as an execution error ("missing balance": Execute returns
\* a non-nil error and exit code 0), emits no posting and leaves all balances
\* unchanged.
C30_MissingBalanceIsError ==
    [][MissingBalanceFires
          => /\ ret'.call = "Execute"
             /\ ret'.err \notin {"", Panicked("Execute").err}
             /\ ret'.exit_code = 0
             /\ Postings' = Postings
             /\ Balances' = Balances]_vars

\* the parts of non-zero amount, the ones SEND emits a posting for
PostedParts(parts) == SelectSeq(parts, LAMBDA part : part.Amount # 0)

\* every entry of after is the entry of before, but the one of (account,
\* asset), which is value
OnlyEntryChanged(before, after, account, asset, value) ==
    /\ DOMAIN after = DOMAIN before
    /\ \A a \in DOMAIN before :
          /\ DOMAIN after[a] = DOMAIN before[a]
          /\ \A c \in DOMAIN before[a] :
                 after[a][c] = IF a = account /\ c = asset THEN value ELSE before[a][c]

\* C31: SEND to a destination that has no balance entry for the funding's
\* asset changes no balance and creates no balance entry, yet still emits its
\* postings; SEND to a tracked (dest, asset) raises exactly that entry by the
\* sum of the funding's part amounts and leaves all other entries unchanged.
C31_SendCreditFrame ==
    [][SendFires
          => LET dest    == StackAt(Stack, 1).name
                 funding == StackAt(Stack, 2).f
                 posted  == PostedParts(funding.Parts)
             IN  /\ IsPrefix(Postings, Postings')
                 /\ Len(Postings') = Len(Postings) + Len(posted)
                 /\ \A i \in 1..Len(posted) :
                        /\ Postings'[Len(Postings) + i].Source = posted[i].Account
                        /\ Postings'[Len(Postings) + i].Destination = dest
                        /\ Postings'[Len(Postings) + i].Asset = funding.Asset
                 /\ IF HasBalance(Balances, dest, funding.Asset)
                    THEN OnlyEntryChanged(Balances, Balances', dest, funding.Asset,
                             Balances[dest][funding.Asset] + PlainTotal(funding.Parts))
                    ELSE Balances' = Balances]_vars

\* every part of the funding has a positive amount
PositiveParts(f) == \A i \in 1..Len(f.Parts) : f.Parts[i].Amount > 0

\* C32: every Funding that is ever on the VM stack (the fundings TAKE_ALL
\* pushes and those TAKE, TAKE_MAX, FUNDING_ASSEMBLE and FUNDING_REVERSE make
\* of them with Take, TakeMax, Concat and Reverse) has only parts with
\* amount > 0.
C32_StackFundingsPositive ==
    \A i \in 1..Len(Stack) :
        GetType(Stack[i]) = TYPE_FUNDING => PositiveParts(Stack[i].f)

\* f and g have the same asset, the same sequence of parts and the same flag
SameStructure(f, g) ==
    /\ f.Asset = g.Asset
    /\ Len(f.Parts) = Len(g.Parts)
    /\ \A i \in 1..Len(f.Parts) :
          /\ f.Parts[i].Account = g.Parts[i].Account
          /\ f.Parts[i].Amount = g.Parts[i].Amount
    /\ f.Infinite = g.Infinite

\* C33: funding equality is structural: Equals(f, g) holds if and only if f
\* and g have the same asset, the same sequence of (account, amount) parts and
\* the same infinite flag; f and g range over the fundings of the harness.
C33_EqualsIsStructural ==
    \A a, b \in DOMAIN refs :
        Equals(Val(a), Val(b)) <=> SameStructure(Val(a), Val(b))

\* REPAY runs on a stack that holds its funding, in an Execute that started
\* after the balances had been resolved
RepayFires ==
    /\ Runs(OP_REPAY)
    /\ CanPop(Stack, <<TYPE_FUNDING>>)
    /\ exec.ready

\* the second REPAY of the round trip runs
RoundTripEnds ==
    /\ RepayFires
    /\ Program.Name = "roundtrip"
    /\ P + 1 = Len(Program.Instructions)

\* C34: withdraw/repay round trip: TAKE_ALL on a tracked (account, asset),
\* then TAKE or TAKE_MAX by an amount not above the balance, then REPAY of
\* both fundings restores every balance entry to its value before the
\* TAKE_ALL; REPAY alone raises the balance of each part's account other than
\* world by that part's amount and changes nothing else.
C34_WithdrawRepayRoundTrip ==
    [][/\ RoundTripEnds => Balances' = exec.initial
       /\ RepayFires
             => LET funding == StackAt(Stack, 1).f
                IN  /\ DOMAIN Balances' = DOMAIN Balances
                    /\ \A a \in DOMAIN Balances :
                           /\ DOMAIN Balances'[a] = DOMAIN Balances[a]
                           /\ \A c \in DOMAIN Balances[a] :
                                  Balances'[a][c]
                                     = IF c = funding.Asset /\ a # WORLD
                                       THEN Balances[a][c] + AmountOf(a, funding.Parts)
                                       ELSE Balances[a][c]
                    /\ Stack' = StackPop(Stack)
                    /\ Postings' = Postings]_vars

\* C35: Concat(f, g) leaves both operands unchanged: after any of the calls,
\* every funding (the operands f, g, h, and each earlier result, which may
\* share an operand's part storage) still has the asset, parts, amounts and
\* flag it had when it was constructed or returned, also when the last part
\* of f and the first part of g name one account and are merged.
C35_ConcatLeavesOperands ==
    scen \in ConcatScens => \A name \in DOMAIN refs : Val(name) = made[name]

\* the balance stream has ended: no request is unanswered or still to be
\* emitted, and the goroutine of ResolveBalances writes Balances no more
ResolutionEnded == rb.pc = "closed"

\* the balance stream carried no Error
NoBalanceError == \A k \in 1..Len(bal_stream) : bal_stream[k].Error = ""

\* Balances holds, for every (account, asset) pair that was answered, the
\* value of the last answer given for the pair
AnswersHeld ==
    \A k \in 1..Len(bal_answers) :
        (\A j \in (k + 1)..Len(bal_answers) :
            <<bal_answers[j].Account, bal_answers[j].Asset>>
                # <<bal_answers[k].Account, bal_answers[k].Asset>>)
        => /\ HasBalance(Balances, bal_answers[k].Account, bal_answers[k].Asset)
           /\ Balances[bal_answers[k].Account][bal_answers[k].Asset]
                 = bal_answers[k].val

\* C36: under any interleaving of the caller with the goroutine of
\* ResolveBalances, a tick of Execute runs only when balance resolution has
\* ended (no BalanceRequest unanswered or still to be emitted, the goroutine
\* writing Balances no more) and ended without an Error; and when the first
\* tick runs Balances holds the answered value of every needed pair.
C36_ExecuteAfterResolution ==
    [][TickRuns => /\ ResolutionEnded
                   /\ NoBalanceError
                   /\ exec.ticks = 0 => AnswersHeld]_vars

============================================================================
